---- MODULE Spec2Model ----
(***************************************************************************)
(* A model of scripts/validate_asl.py: the ASLValidator class (load,       *)
(* validate and its eight checks, report) and the batch driver main().     *)
(*                                                                         *)
(* A parsed JSON value is a record [k |-> kind, v |-> payload]; the kinds  *)
(* are those json.load produces: "obj" (dict), "arr" (list), "str", "num", *)
(* "bool", "null" (None).  The Python operators the validator applies to   *)
(* such values (in, [], .get, .items, iteration, truthiness, hashing) are  *)
(* modelled with the exceptions they raise: a check is an operator that    *)
(* returns the diagnostics it appended and whether it raised.              *)
(***************************************************************************)
EXTENDS Integers, Sequences, FiniteSets, TLC

VARIABLES
    content,       \* the file on disk that the current validator reads
    definition,    \* self.definition
    errors,        \* self.errors
    warnings,      \* self.warnings
    info,          \* self.info
    pc,            \* the position of validate() in its sequence of checks
    reachable,     \* _detect_unreachable_states: the visited set
    queue,         \* _detect_unreachable_states: the work-list
    enqueued,      \* how many names have been put on the work-list so far
    result,        \* what validate() returned: "none", "True", "False"
    raised_in,     \* the check an exception left, "" when none did
    strict,        \* args.strict
    quiet,         \* args.quiet
    verbose,       \* args.verbose
    asl_files,     \* main: the number of files to validate
    file_idx,      \* main: the index of the file being validated
    failed_files,  \* main: failed_files
    printed,       \* main: the reports sent to standard output
    exit_status,   \* the status the process ended with: "running", "0", "1"
    validators,    \* a pool of validators, one per file: each one's attributes
    heap,          \* the list objects the validators of the pool append to
    efs,           \* check-flag-file: the base path on the shared mount
    clock,         \* check-flag-file: datetime.now(timezone.utc), in seconds
    calls,         \* check-flag-file: the invocations of lambda_handler in flight
    settled,       \* check-flag-file: per flag id, what the last finished write or delete left
    finder,        \* get-efs-subpath: the mount, the event and the response
    first,         \* what a caller saw when validate() returned the first time
    db             \* run-scripts-mysql: the invocation, the connection, the cursor

vars == <<content, definition, errors, warnings, info, pc, reachable, queue, enqueued,
          result, raised_in, strict, quiet, verbose, asl_files, file_idx, failed_files,
          printed, exit_status, validators, heap,
          efs, clock, calls, settled, finder, first, db>>

\* the pool of validators, which validate() on one validator and main() leave alone
pool_vars == <<validators, heap>>

\* the state of the Lambda handlers, which share nothing with the validator
lambda_vars == <<efs, clock, calls, settled, finder, db>>

\* no caller has seen validate() return
NoSnapshot == [errors |-> <<>>, warnings |-> <<>>, info |-> <<>>, result |-> "none"]

\* no Lambda handler is deployed next to the validator
NoLambda ==
    /\ efs = <<>>
    /\ clock = 0
    /\ calls = <<>>
    /\ settled = <<>>
    /\ finder = <<>>
    /\ db = <<>>

validator_vars == <<content, definition, errors, warnings, info,
                    reachable, queue, enqueued, result, raised_in>>

main_vars == <<strict, quiet, verbose, asl_files, file_idx, failed_files,
               printed, exit_status, first>>

----------------------------------------------------------------------------
(* JSON values and the Python operations on them *)

Null == [k |-> "null", v |-> 0]
Bool(b) == [k |-> "bool", v |-> b]
Num(n) == [k |-> "num", v |-> n]
Str(s) == [k |-> "str", v |-> s]
Arr(s) == [k |-> "arr", v |-> s]
Obj(f) == [k |-> "obj", v |-> f]
EmptyObj == Obj(<<>>)

\* the order in which a dict of this model is iterated (the document order
\* of its keys): state names first
KeyOrder == <<"A", "B", "C", "D", "", "Next", "StartAt", "States", "RoleArn">>

Keys(o) == SelectSeq(KeyOrder, LAMBDA key : key \in DOMAIN o.v)

\* bool(x)
Truthy(x) ==
    CASE x.k = "null" -> FALSE
      [] x.k = "bool" -> x.v
      [] x.k = "num" -> x.v # 0
      [] x.k = "str" -> x.v # ""
      [] x.k = "arr" -> Len(x.v) > 0
      [] x.k = "obj" -> DOMAIN x.v # {}

\* hash(x) raises TypeError for a list or a dict
Hashable(x) == x.k \notin {"arr", "obj"}

\* needle in s, for two Python strings
IsSubstr(needle, s) ==
    \/ needle = ""
    \/ \E i \in 1..(Len(s) - Len(needle) + 1) :
           SubSeq(s, i, i + Len(needle) - 1) = needle

\* a == b: True == 1 and False == 0, any other two values by kind and payload
PyEq(a, b) ==
    IF a.k \in {"bool", "num"} /\ b.k \in {"bool", "num"}
    THEN (IF a.k = "bool" THEN (IF a.v THEN 1 ELSE 0) ELSE a.v)
         = (IF b.k = "bool" THEN (IF b.v THEN 1 ELSE 0) ELSE b.v)
    ELSE a = b

\* `key in c` for a str key: the TypeError of a container that is no
\* dict, list or str
InRaises(c) == c.k \notin {"obj", "arr", "str"}

In(key, c) ==
    CASE c.k = "obj" -> key \in DOMAIN c.v
      [] c.k = "arr" -> \E i \in 1..Len(c.v) : c.v[i] = Str(key)
      [] c.k = "str" -> IsSubstr(key, c.v)
      [] OTHER -> FALSE

\* `x in c` for a parsed value x: a dict hashes x, a str wants a str
ContainsRaises(x, c) ==
    CASE c.k = "obj" -> ~Hashable(x)
      [] c.k = "arr" -> FALSE
      [] c.k = "str" -> x.k # "str"
      [] OTHER -> TRUE

Contains(x, c) ==
    CASE c.k = "obj" -> x.k = "str" /\ x.v \in DOMAIN c.v
      [] c.k = "arr" -> \E i \in 1..Len(c.v) : PyEq(c.v[i], x)
      [] c.k = "str" -> x.k = "str" /\ IsSubstr(x.v, c.v)
      [] OTHER -> FALSE

\* c[key] for a str key, after `key in c` was true: only a dict has it
SubscriptRaises(c) == c.k # "obj"

\* d.get(key, default) on a dict
Get(d, key, default) == IF key \in DOMAIN d.v THEN d.v[key] ELSE default

\* `for x in c`: the items, or the TypeError of a value that is not iterable
IterRaises(c) == c.k \notin {"obj", "arr", "str"}

Iter(c) ==
    CASE c.k = "arr" -> c.v
      [] c.k = "obj" -> [i \in 1..Len(Keys(c)) |-> Str(Keys(c)[i])]
      [] c.k = "str" -> [i \in 1..Len(c.v) |-> Str(SubSeq(c.v, i, i))]
      [] OTHER -> <<>>

----------------------------------------------------------------------------
(* Diagnostics: the message a check appends, as the rule that produced it, *)
(* the state it names, the index it names and the value it quotes.         *)

Diag(rule, state, idx, arg) ==
    [rule |-> rule, state |-> state, idx |-> idx, arg |-> arg]

\* what a check did: the errors and warnings it appended, and whether an
\* exception left it
Done(e, w) == [e |-> e, w |-> w, raised |-> FALSE]
Raised(e, w) == [e |-> e, w |-> w, raised |-> TRUE]

\* two steps in sequence: the second runs only when the first returned
Then(r1, r2) ==
    IF r1.raised THEN r1
    ELSE [e |-> r1.e \o r2.e, w |-> r1.w \o r2.w, raised |-> r2.raised]

VALID_STATE_TYPES ==
    {"Task", "Pass", "Choice", "Wait", "Succeed", "Fail", "Parallel", "Map"}

TERMINAL_STATE_TYPES == {"Succeed", "Fail"}

NO_TRANSITION_TYPES == {"Choice", "Succeed", "Fail"}

_validate_required_fields(d) ==
    IF InRaises(d) THEN Raised(<<>>, <<>>)
    ELSE LET e1 == IF ~In("StartAt", d)
                   THEN <<Diag("MissingStartAt", "", 0, Null)>> ELSE <<>>
         IN  IF ~In("States", d)
             THEN Done(e1 \o <<Diag("MissingStates", "", 0, Null)>>, <<>>)
             ELSE IF SubscriptRaises(d) THEN Raised(e1, <<>>)
             ELSE IF d.v["States"].k # "obj"
             THEN Done(e1 \o <<Diag("StatesNotObject", "", 0, Null)>>, <<>>)
             ELSE IF DOMAIN d.v["States"].v = {}
             THEN Done(e1 \o <<Diag("StatesEmpty", "", 0, Null)>>, <<>>)
             ELSE Done(e1, <<>>)

\* a start check that never looks StartAt up in States
start_at_without_lookup(d) ==
    IF InRaises(d) THEN Raised(<<>>, <<>>) ELSE Done(<<>>, <<>>)

_validate_start_at(d) ==
    IF InRaises(d) THEN Raised(<<>>, <<>>)
    ELSE IF ~In("StartAt", d) \/ ~In("States", d) THEN Done(<<>>, <<>>)
    ELSE IF SubscriptRaises(d) THEN Raised(<<>>, <<>>)
    ELSE LET start_at == d.v["StartAt"]
             states == d.v["States"]
         IN  IF ContainsRaises(start_at, states) THEN Raised(<<>>, <<>>)
             ELSE IF ~Contains(start_at, states)
             THEN Done(<<Diag("StartAtRef", "", 0, start_at)>>, <<>>)
             ELSE Done(<<>>, <<>>)

----------------------------------------------------------------------------
(* _validate_states and the per-type rules *)

RECURSIVE ChoiceNextLoop(_, _, _)
\* for i, choice in enumerate(choices): if "Next" not in choice: error
ChoiceNextLoop(state_name, choices, i) ==
    IF i > Len(choices) THEN Done(<<>>, <<>>)
    ELSE IF InRaises(choices[i]) THEN Raised(<<>>, <<>>)
    ELSE Then(Done(IF ~In("Next", choices[i])
                   THEN <<Diag("ChoiceNoNext", state_name, i - 1, Null)>>
                   ELSE <<>>, <<>>),
              ChoiceNextLoop(state_name, choices, i + 1))

_validate_choice_state(state_name, state_def) ==
    IF "Choices" \notin DOMAIN state_def.v
    THEN Done(<<Diag("ChoicesMissing", state_name, 0, Null)>>, <<>>)
    ELSE LET choices == state_def.v["Choices"]
         IN  IF choices.k # "arr"
             THEN Done(<<Diag("ChoicesNotArray", state_name, 0, Null)>>, <<>>)
             ELSE Then(Then(Done(IF Len(choices.v) = 0
                                 THEN <<Diag("ChoicesEmpty", state_name, 0, Null)>>
                                 ELSE <<>>, <<>>),
                            ChoiceNextLoop(state_name, choices.v, 1)),
                       Done(<<>>, IF "Default" \notin DOMAIN state_def.v
                                  THEN <<Diag("NoDefault", state_name, 0, Null)>>
                                  ELSE <<>>))

_validate_task_state(state_name, state_def) ==
    Done(IF "Resource" \notin DOMAIN state_def.v
         THEN <<Diag("TaskNoResource", state_name, 0, Null)>> ELSE <<>>,
         IF "Catch" \notin DOMAIN state_def.v /\ "Retry" \notin DOMAIN state_def.v
         THEN <<Diag("TaskNoErrorHandling", state_name, 0, Null)>> ELSE <<>>)

wait_fields == {"Seconds", "SecondsPath", "Timestamp", "TimestampPath"}

_validate_wait_state(state_name, state_def) ==
    Done(IF ~(\E f \in wait_fields : f \in DOMAIN state_def.v)
         THEN <<Diag("WaitNoField", state_name, 0, Null)>> ELSE <<>>, <<>>)

_validate_map_state(state_name, state_def) ==
    Done(IF "ItemProcessor" \notin DOMAIN state_def.v
            /\ "Iterator" \notin DOMAIN state_def.v
         THEN <<Diag("MapNoProcessor", state_name, 0, Null)>> ELSE <<>>, <<>>)

_validate_parallel_state(state_name, state_def) ==
    IF "Branches" \notin DOMAIN state_def.v
    THEN Done(<<Diag("BranchesMissing", state_name, 0, Null)>>, <<>>)
    ELSE LET branches == state_def.v["Branches"]
         IN  Done(IF branches.k # "arr" \/ Len(branches.v) = 0
                  THEN <<Diag("BranchesNotNonEmptyArray", state_name, 0, Null)>>
                  ELSE <<>>, <<>>)

\* the Next-or-End rule of a state of a valid type
TransitionRule(state_name, state_def, state_type) ==
    IF state_type \notin NO_TRANSITION_TYPES
    THEN LET has_end == Truthy(Get(state_def, "End", Bool(FALSE)))
             has_next == "Next" \in DOMAIN state_def.v
         IN  Done(IF ~has_end /\ ~has_next
                  THEN <<Diag("NoEndOrNext", state_name, 0, Str(state_type))>>
                  ELSE <<>>, <<>>)
    ELSE Done(<<>>, <<>>)

\* the dispatch on the type of a state of a valid type
TypeRule(state_name, state_def, state_type) ==
    CASE state_type = "Choice" -> _validate_choice_state(state_name, state_def)
      [] state_type = "Task" -> _validate_task_state(state_name, state_def)
      [] state_type = "Wait" -> _validate_wait_state(state_name, state_def)
      [] state_type = "Map" -> _validate_map_state(state_name, state_def)
      [] state_type = "Parallel" -> _validate_parallel_state(state_name, state_def)
      [] OTHER -> Done(<<>>, <<>>)

\* `state_type not in self.VALID_STATE_TYPES`, for a hashable state_type
InvalidType(state_type) ==
    ~(state_type.k = "str" /\ state_type.v \in VALID_STATE_TYPES)

\* the body of the loop of _validate_states, for one state
ValidateState(state_name, state_def) ==
    IF state_def.k # "obj"
    THEN Done(<<Diag("StateNotObject", state_name, 0, Null)>>, <<>>)
    ELSE LET state_type == Get(state_def, "Type", Null)
         IN  IF ~Truthy(state_type)
             THEN Done(<<Diag("MissingType", state_name, 0, Null)>>, <<>>)
             ELSE IF ~Hashable(state_type) THEN Raised(<<>>, <<>>)
             ELSE IF InvalidType(state_type)
             THEN Done(<<Diag("InvalidType", state_name, 0, state_type)>>, <<>>)
             ELSE Then(TransitionRule(state_name, state_def, state_type.v),
                       TypeRule(state_name, state_def, state_type.v))

RECURSIVE ValidateStatesLoop(_, _, _)
ValidateStatesLoop(states, keys, i) ==
    IF i > Len(keys) THEN Done(<<>>, <<>>)
    ELSE Then(ValidateState(keys[i], states.v[keys[i]]),
              ValidateStatesLoop(states, keys, i + 1))

\* self.definition.get("States", {}), and whether .get or the later
\* .items() or .keys() raises AttributeError
StatesOf(d) == Get(d, "States", EmptyObj)

StatesRaises(d) == d.k # "obj" \/ StatesOf(d).k # "obj"

_validate_states(d) ==
    IF StatesRaises(d) THEN Raised(<<>>, <<>>)
    ELSE ValidateStatesLoop(StatesOf(d), Keys(StatesOf(d)), 1)

----------------------------------------------------------------------------
(* _validate_state_references *)

\* `target not in valid_states`, for a hashable target
Dangling(target, valid_states) ==
    ~(target.k = "str" /\ target.v \in valid_states)

\* one Choices element or Catch entry:
\* `"Next" in entry and entry["Next"] not in valid_states`
EntryRef(rule, state_name, i, entry, valid_states) ==
    IF InRaises(entry) THEN Raised(<<>>, <<>>)
    ELSE IF ~In("Next", entry) THEN Done(<<>>, <<>>)
    ELSE IF SubscriptRaises(entry) THEN Raised(<<>>, <<>>)
    ELSE IF ~Hashable(entry.v["Next"]) THEN Raised(<<>>, <<>>)
    ELSE Done(IF Dangling(entry.v["Next"], valid_states)
              THEN <<Diag(rule, state_name, i - 1, entry.v["Next"])>>
              ELSE <<>>, <<>>)

RECURSIVE EntryRefLoop(_, _, _, _, _)
EntryRefLoop(rule, state_name, entries, i, valid_states) ==
    IF i > Len(entries) THEN Done(<<>>, <<>>)
    ELSE Then(EntryRef(rule, state_name, i, entries[i], valid_states),
              EntryRefLoop(rule, state_name, entries, i + 1, valid_states))

\* a state's own field `field` ("Next" or "Default"), when present
FieldRef(rule, state_name, state_def, field, valid_states) ==
    IF field \notin DOMAIN state_def.v THEN Done(<<>>, <<>>)
    ELSE IF ~Hashable(state_def.v[field]) THEN Raised(<<>>, <<>>)
    ELSE Done(IF Dangling(state_def.v[field], valid_states)
              THEN <<Diag(rule, state_name, 0, state_def.v[field])>>
              ELSE <<>>, <<>>)

\* for i, entry in enumerate(state_def.get(field, [])): ...
EntriesRef(rule, state_name, state_def, field, valid_states) ==
    LET entries == Get(state_def, field, Arr(<<>>))
    IN  IF IterRaises(entries) THEN Raised(<<>>, <<>>)
        ELSE EntryRefLoop(rule, state_name, Iter(entries), 1, valid_states)

IsChoice(state_def) == Get(state_def, "Type", Null) = Str("Choice")

\* the body of the loop of _validate_state_references, for one state
StateReferences(state_name, state_def, valid_states) ==
    IF state_def.k # "obj" THEN Done(<<>>, <<>>)
    ELSE Then(Then(FieldRef("NextRef", state_name, state_def, "Next", valid_states),
                   IF IsChoice(state_def)
                   THEN Then(EntriesRef("ChoiceRef", state_name, state_def,
                                        "Choices", valid_states),
                             FieldRef("DefaultRef", state_name, state_def,
                                      "Default", valid_states))
                   ELSE Done(<<>>, <<>>)),
              EntriesRef("CatchRef", state_name, state_def, "Catch", valid_states))

RECURSIVE StateReferencesLoop(_, _, _)
StateReferencesLoop(states, keys, i) ==
    IF i > Len(keys) THEN Done(<<>>, <<>>)
    ELSE Then(StateReferences(keys[i], states.v[keys[i]], DOMAIN states.v),
              StateReferencesLoop(states, keys, i + 1))

_validate_state_references(d) ==
    IF StatesRaises(d) THEN Raised(<<>>, <<>>)
    ELSE StateReferencesLoop(StatesOf(d), Keys(StatesOf(d)), 1)

----------------------------------------------------------------------------
(* _validate_terminal_states *)

\* `state_type in TERMINAL_STATE_TYPES or state_def.get("End", False)`
IsTerminal(state_def) ==
    LET state_type == Get(state_def, "Type", Str(""))
    IN  \/ state_type.k = "str" /\ state_type.v \in TERMINAL_STATE_TYPES
        \/ Truthy(Get(state_def, "End", Bool(FALSE)))

\* the set membership hashes state_type
TerminalRaises(state_def) == ~Hashable(Get(state_def, "Type", Str("")))

\* the names the loop collects in terminal_states
TerminalStates(states) ==
    {n \in DOMAIN states.v : states.v[n].k = "obj" /\ IsTerminal(states.v[n])}

_validate_terminal_states(d) ==
    IF StatesRaises(d) THEN Raised(<<>>, <<>>)
    ELSE LET states == StatesOf(d)
         IN  IF \E n \in DOMAIN states.v :
                    states.v[n].k = "obj" /\ TerminalRaises(states.v[n])
             THEN Raised(<<>>, <<>>)
             ELSE Done(IF TerminalStates(states) = {}
                       THEN <<Diag("NoTerminalState", "", 0, Null)>>
                       ELSE <<>>, <<>>)

----------------------------------------------------------------------------
(* _detect_unreachable_states: the names one visited state contributes *)

Items(s) == [items |-> s, raised |-> FALSE]
ItemsRaised == [items |-> <<>>, raised |-> TRUE]

Also(r1, r2) ==
    IF r1.raised \/ r2.raised THEN ItemsRaised
    ELSE Items(r1.items \o r2.items)

\* if "Next" in entry: next_states.append(entry["Next"])
EntryNext(entry) ==
    IF InRaises(entry) THEN ItemsRaised
    ELSE IF ~In("Next", entry) THEN Items(<<>>)
    ELSE IF SubscriptRaises(entry) THEN ItemsRaised
    ELSE Items(<<entry.v["Next"]>>)

RECURSIVE EntryNextLoop(_, _)
EntryNextLoop(entries, i) ==
    IF i > Len(entries) THEN Items(<<>>)
    ELSE Also(EntryNext(entries[i]), EntryNextLoop(entries, i + 1))

\* for entry in state_def.get(field, []): ...
EntriesNext(state_def, field) ==
    LET entries == Get(state_def, field, Arr(<<>>))
    IN  IF IterRaises(entries) THEN ItemsRaised
        ELSE EntryNextLoop(Iter(entries), 1)

\* a loop over Branches that follows the StartAt of each branch
branches_followed(state_def) ==
    IF IterRaises(Get(state_def, "Branches", Arr(<<>>))) THEN ItemsRaised
    ELSE LET with_start ==
                 SelectSeq(Iter(Get(state_def, "Branches", Arr(<<>>))),
                           LAMBDA branch : branch.k = "obj" /\ "StartAt" \in DOMAIN branch.v)
         IN  Items([i \in DOMAIN with_start |-> with_start[i].v["StartAt"]])

\* for branch in state_def.get("Branches", []): pass
BranchesLoop(state_def) ==
    IF IterRaises(Get(state_def, "Branches", Arr(<<>>))) THEN ItemsRaised
    ELSE Items(<<>>)

\* next_states without the loop over Catch
next_states_without_catch(state_def) ==
    Also(IF "Next" \in DOMAIN state_def.v
         THEN Items(<<state_def.v["Next"]>>) ELSE Items(<<>>),
         IF IsChoice(state_def)
         THEN Also(EntriesNext(state_def, "Choices"),
                   IF "Default" \in DOMAIN state_def.v
                   THEN Items(<<state_def.v["Default"]>>)
                   ELSE Items(<<>>))
         ELSE Items(<<>>))

\* next_states of a visited state, in the order the code appends them
NextStates(state_def) ==
    Also(Also(Also(IF "Next" \in DOMAIN state_def.v
                   THEN Items(<<state_def.v["Next"]>>) ELSE Items(<<>>),
                   IF IsChoice(state_def)
                   THEN Also(EntriesNext(state_def, "Choices"),
                             IF "Default" \in DOMAIN state_def.v
                             THEN Items(<<state_def.v["Default"]>>)
                             ELSE Items(<<>>))
                   ELSE Items(<<>>)),
              EntriesNext(state_def, "Catch")),
         BranchesLoop(state_def))

\* the orders in which `for state in unreachable` may iterate a set of str
Orders(S) ==
    {s \in [1..Cardinality(S) -> S] : \A n \in S : \E i \in DOMAIN s : s[i] = n}

----------------------------------------------------------------------------
(* _check_cross_account_patterns *)

\* what the check appended: warnings, the info message, and whether it raised
RECURSIVE CredentialsLoop(_, _, _, _, _)
CredentialsLoop(states, keys, i, credentials_count, w) ==
    IF i > Len(keys)
    THEN [w |-> w, raised |-> FALSE,
          i |-> IF credentials_count > 0
                THEN <<Diag("CrossAccount", "", credentials_count, Null)>>
                ELSE <<>>]
    ELSE LET state_def == states.v[keys[i]]
         IN  IF state_def.k # "obj" \/ "Credentials" \notin DOMAIN state_def.v
             THEN CredentialsLoop(states, keys, i + 1, credentials_count, w)
             ELSE IF InRaises(state_def.v["Credentials"])
             THEN [w |-> w, raised |-> TRUE, i |-> <<>>]
             ELSE CredentialsLoop(states, keys, i + 1, credentials_count + 1,
                      IF ~In("RoleArn", state_def.v["Credentials"])
                         /\ ~In("RoleArn.$", state_def.v["Credentials"])
                      THEN Append(w, Diag("NoRoleArn", keys[i], 0, Null))
                      ELSE w)

_check_cross_account_patterns(d) ==
    IF StatesRaises(d) THEN [w |-> <<>>, raised |-> TRUE, i |-> <<>>]
    ELSE CredentialsLoop(StatesOf(d), Keys(StatesOf(d)), 1, 0, <<>>)

----------------------------------------------------------------------------
(* _check_hardcoded_arns: the pattern                                      *)
(*     arn:aws:[a-z0-9-]+:[a-z0-9-]*:(\d{12}):                             *)
(* over json.dumps(self.definition).  No character of the pattern is a     *)
(* quote, so every match lies inside one string of the document (a key or  *)
(* a value), and the matches are those found in each string on its own.    *)

Ch(s, i) == IF 1 <= i /\ i <= Len(s) THEN SubSeq(s, i, i) ELSE ""

IsDigit(c) == c \in {"0", "1", "2", "3", "4", "5", "6", "7", "8", "9"}

IsLower(c) ==
    c \in {"a", "b", "c", "d", "e", "f", "g", "h", "i", "j", "k", "l", "m",
           "n", "o", "p", "q", "r", "s", "t", "u", "v", "w", "x", "y", "z"}

\* [a-z0-9-]
IsClass(c) == IsLower(c) \/ IsDigit(c) \/ c = "-"

RECURSIVE RunEnd(_, _)
\* the index after the longest run of [a-z0-9-] that starts at i
RunEnd(s, i) == IF IsClass(Ch(s, i)) THEN RunEnd(s, i + 1) ELSE i

AccountDigits == 12

\* whether the pattern matches at i.  ":" is in neither class, so each run
\* the match takes is the longest one.
MatchAt(s, i) ==
    /\ i + 7 <= Len(s)
    /\ SubSeq(s, i, i + 7) = "arn:aws:"
    /\ LET j1 == RunEnd(s, i + 8)
           j2 == RunEnd(s, j1 + 1)
       IN  /\ j1 > i + 8
           /\ Ch(s, j1) = ":"
           /\ Ch(s, j2) = ":"
           /\ \A n \in 1..AccountDigits : IsDigit(Ch(s, j2 + n))
           /\ Ch(s, j2 + AccountDigits + 1) = ":"

\* of a match at i: the index of the ":" before the group
GroupAt(s, i) == RunEnd(s, RunEnd(s, i + 8) + 1)

RECURSIVE FindAll(_, _)
\* re.findall(pattern, s), from index i on: leftmost matches, not overlapping
FindAll(s, i) ==
    IF i > Len(s) THEN {}
    ELSE IF MatchAt(s, i)
    THEN {SubSeq(s, GroupAt(s, i) + 1, GroupAt(s, i) + AccountDigits)}
         \cup FindAll(s, GroupAt(s, i) + AccountDigits + 2)
    ELSE FindAll(s, i + 1)

RECURSIVE StringsOf(_)
\* the strings json.dumps writes for a value: keys and str values, nested
StringsOf(x) ==
    CASE x.k = "str" -> {x.v}
      [] x.k = "arr" -> UNION {StringsOf(x.v[i]) : i \in 1..Len(x.v)}
      [] x.k = "obj" -> DOMAIN x.v \cup UNION {StringsOf(x.v[key]) : key \in DOMAIN x.v}
      [] OTHER -> {}

\* set(matches)
unique_accounts(d) == UNION {FindAll(s, 1) : s \in StringsOf(d)}

----------------------------------------------------------------------------
(* report *)

Line(kind, n, d) == [kind |-> kind, n |-> n, d |-> d]

Block(kind, item, list) ==
    <<Line(kind, Len(list), Null)>> \o [i \in 1..Len(list) |-> Line(item, i, list[i])]

report(file_path, errs, warns, infos, verbose_) ==
    <<Line("File", file_path, Null)>>
    \o (IF errs # <<>> THEN Block("ERRORS", "error", errs) ELSE <<>>)
    \o (IF warns # <<>> /\ verbose_ THEN Block("WARNINGS", "warning", warns) ELSE <<>>)
    \o (IF infos # <<>> /\ verbose_ THEN Block("INFO", "info", infos) ELSE <<>>)
    \o (IF errs = <<>> THEN <<Line("Valid", 0, Null)>> ELSE <<>>)

----------------------------------------------------------------------------
(* The steps of validate() *)

\* a check that appends to errors and warnings and returns or raises
Check(from, to, r) ==
    /\ pc = from
    /\ errors' = errors \o r.e
    /\ warnings' = warnings \o r.w
    /\ pc' = IF r.raised THEN "raised" ELSE to
    /\ raised_in' = IF r.raised THEN from ELSE raised_in
    /\ UNCHANGED <<content, definition, info, reachable, queue, enqueued, result>>
    /\ UNCHANGED main_vars
    /\ UNCHANGED pool_vars
    /\ UNCHANGED lambda_vars

\* the message load() appends for a file it cannot parse
LoadError(kind) ==
    CASE kind = "invalid_json" -> Diag("InvalidJSON", "", 0, Null)
      [] kind = "not_found" -> Diag("FileNotFound", "", 0, Null)
      [] OTHER -> Diag("ReadError", "", 0, Null)

\* a load() that reports success whatever happened
load_always_true(file) == TRUE

\* load() returns True
LoadOk(file) == file.kind = "json"

\* validate(): `if not self.load(): return False`
call_load ==
    /\ pc = "load"
    /\ IF LoadOk(content)
       THEN /\ definition' = content.json
            /\ pc' = "required_fields"
            /\ UNCHANGED <<errors, result>>
       ELSE /\ errors' = Append(errors, LoadError(content.kind))
            /\ result' = "False"
            /\ pc' = "done"
            /\ UNCHANGED definition
    /\ UNCHANGED <<content, warnings, info, reachable, queue, enqueued, raised_in>>
    /\ UNCHANGED main_vars
    /\ UNCHANGED pool_vars
    /\ UNCHANGED lambda_vars

call_required_fields ==
    Check("required_fields", "start_at", _validate_required_fields(definition))

call_start_at ==
    Check("start_at", "states", _validate_start_at(definition))

call_states ==
    Check("states", "state_references", _validate_states(definition))

call_state_references ==
    Check("state_references", "terminal_states",
          _validate_state_references(definition))

call_terminal_states ==
    Check("terminal_states", "unreachable_states",
          _validate_terminal_states(definition))

\* _detect_unreachable_states up to the loop: the guard and the first queue
unreachable_begin ==
    /\ pc = "unreachable_states"
    /\ IF definition.k # "obj"
       THEN /\ pc' = "raised"
            /\ raised_in' = "unreachable_states"
            /\ UNCHANGED <<reachable, queue, enqueued>>
       ELSE IF ~Truthy(StatesOf(definition))
               \/ ~Truthy(Get(definition, "StartAt", Null))
       THEN pc' = "cross_account" /\ UNCHANGED <<reachable, queue, enqueued, raised_in>>
       ELSE /\ pc' = "bfs"
            /\ reachable' = {}
            /\ queue' = <<Get(definition, "StartAt", Null)>>
            /\ enqueued' = 1
            /\ UNCHANGED raised_in
    /\ UNCHANGED <<content, definition, errors, warnings, info, result>>
    /\ UNCHANGED main_vars
    /\ UNCHANGED pool_vars
    /\ UNCHANGED lambda_vars

\* `current in reachable or current not in states` raises
VisitRaises(current, states_) ==
    ~Hashable(current) \/ ContainsRaises(current, states_)

\* whether the iteration that visits `current` raises, and what it appends to
\* the queue when it does not
StepRaises(current, states_, reached) ==
    \/ VisitRaises(current, states_)
    \/ /\ ~(current.k = "str" /\ current.v \in reached)
       /\ Contains(current, states_)
       /\ states_.v[current.v].k = "obj"
       /\ NextStates(states_.v[current.v]).raised

\* a skip that forgets the visited set
skipped_when_absent(current, states_, reached) == ~Contains(current, states_)

\* `if current in reachable or current not in states: continue`
Skipped(current, states_, reached) ==
    (current.k = "str" /\ current.v \in reached) \/ ~Contains(current, states_)

\* more names than any document of the model puts on the work-list
MaxEnqueued == 16

\* one iteration of `while queue`
unreachable_step ==
    /\ pc = "bfs"
    /\ queue # <<>>
    /\ enqueued <= MaxEnqueued
    /\ LET current == Head(queue)
           states_ == StatesOf(definition)
       IN  IF StepRaises(current, states_, reachable)
           THEN /\ pc' = "raised"
                /\ raised_in' = "unreachable_states"
                /\ queue' = Tail(queue)
                /\ reachable' = IF VisitRaises(current, states_) THEN reachable
                                ELSE reachable \cup {current.v}
           ELSE /\ UNCHANGED <<pc, raised_in>>
                /\ IF Skipped(current, states_, reachable)
                   THEN queue' = Tail(queue) /\ UNCHANGED reachable
                   ELSE /\ reachable' = reachable \cup {current.v}
                        /\ queue' = IF states_.v[current.v].k # "obj"
                                    THEN Tail(queue)
                                    ELSE Tail(queue)
                                         \o NextStates(states_.v[current.v]).items
    /\ enqueued' = enqueued + Len(queue') - Len(Tail(queue))
    /\ UNCHANGED <<content, definition, errors, warnings, info, result>>
    /\ UNCHANGED main_vars
    /\ UNCHANGED pool_vars
    /\ UNCHANGED lambda_vars

\* unreachable = set(states.keys()) - reachable
Unreachable(states_, reached) == DOMAIN states_.v \ reached

\* after the loop: one warning for each unreachable state, in the order the
\* set of names happens to iterate
unreachable_end ==
    /\ pc = "bfs"
    /\ queue = <<>>
    /\ \E order \in Orders(Unreachable(StatesOf(definition), reachable)) :
           warnings' = warnings
               \o [i \in DOMAIN order |-> Diag("Unreachable", order[i], 0, Null)]
    /\ pc' = "cross_account"
    /\ UNCHANGED <<content, definition, errors, info, reachable, queue, enqueued, result,
                   raised_in>>
    /\ UNCHANGED main_vars
    /\ UNCHANGED pool_vars
    /\ UNCHANGED lambda_vars

call_cross_account ==
    /\ pc = "cross_account"
    /\ LET r == _check_cross_account_patterns(definition)
       IN  /\ warnings' = warnings \o r.w
           /\ info' = info \o r.i
           /\ pc' = IF r.raised THEN "raised" ELSE "hardcoded_arns"
           /\ raised_in' = IF r.raised THEN "cross_account" ELSE raised_in
    /\ UNCHANGED <<content, definition, errors, reachable, queue, enqueued, result>>
    /\ UNCHANGED main_vars
    /\ UNCHANGED pool_vars
    /\ UNCHANGED lambda_vars

\* validate(): `return len(self.errors) == 0`
Verdict(errs) == IF Len(errs) = 0 THEN "True" ELSE "False"

\* _check_hardcoded_arns, the last check, and the return of validate():
\* the warning lists the accounts in the order the set happens to iterate
call_hardcoded_arns ==
    /\ pc = "hardcoded_arns"
    /\ IF unique_accounts(definition) # {}
       THEN \E order \in Orders(unique_accounts(definition)) :
                warnings' = Append(warnings,
                    Diag("HardcodedAccounts", "", 0,
                         Arr([i \in DOMAIN order |-> Str(order[i])])))
       ELSE UNCHANGED warnings
    /\ result' = Verdict(errors)
    /\ pc' = "done"
    /\ UNCHANGED <<content, definition, errors, info, reachable, queue, enqueued, raised_in>>
    /\ UNCHANGED main_vars
    /\ UNCHANGED pool_vars
    /\ UNCHANGED lambda_vars

validate ==
    \/ call_load
    \/ call_required_fields
    \/ call_start_at
    \/ call_states
    \/ call_state_references
    \/ call_terminal_states
    \/ unreachable_begin
    \/ unreachable_step
    \/ unreachable_end
    \/ call_cross_account
    \/ call_hardcoded_arns

----------------------------------------------------------------------------
(* main() *)

\* main: the flags decide whether the file passed
\* a verdict that forgets --strict
is_valid_without_strict(verdict, strict_, warns) == verdict = "True"

\* is_valid = validator.validate(); under --strict, False on any warning
is_valid(verdict, strict_, warns) ==
    IF strict_ THEN verdict = "True" /\ Len(warns) = 0 ELSE verdict = "True"

\* the argument list and the directory scan: no file found, sys.exit(0)
main_begin ==
    /\ pc = "main"
    /\ IF asl_files = 0
       THEN pc' = "exited" /\ exit_status' = "0"
       ELSE pc' = "next_file" /\ UNCHANGED exit_status
    /\ UNCHANGED <<first, strict, quiet, verbose, asl_files, file_idx, failed_files, printed>>
    /\ UNCHANGED validator_vars
    /\ UNCHANGED pool_vars
    /\ UNCHANGED lambda_vars

\* ASLValidator(file_path): a new validator on the next file
Construct(file) ==
    /\ content' = file
    /\ definition' = EmptyObj
    /\ errors' = <<>>
    /\ warnings' = <<>>
    /\ info' = <<>>
    /\ reachable' = {}
    /\ queue' = <<>>
    /\ enqueued' = 0
    /\ result' = "none"
    /\ raised_in' = ""

\* after validate() returned: the verdict, the report, failed_files
main_record ==
    /\ pc = "done"
    /\ file_idx >= 1
    /\ LET valid == is_valid(result, strict, warnings)
       IN  /\ printed' = IF ~quiet \/ ~valid
                         THEN report(file_idx, errors, warnings, info, verbose)
                         ELSE <<>>
           /\ failed_files' = IF ~valid THEN Append(failed_files, file_idx)
                              ELSE failed_files
    /\ pc' = "next_file"
    /\ UNCHANGED <<first, strict, quiet, verbose, asl_files, file_idx, exit_status>>
    /\ UNCHANGED validator_vars
    /\ UNCHANGED pool_vars
    /\ UNCHANGED lambda_vars

\* sys.exit(1) if failed_files else sys.exit(0)
ExitStatus(failed) == IF failed # <<>> THEN "1" ELSE "0"

\* after the loop: the summary and the exit status
main_end ==
    /\ pc = "next_file"
    /\ file_idx = asl_files
    /\ exit_status' = ExitStatus(failed_files)
    /\ pc' = "exited"
    /\ UNCHANGED <<first, strict, quiet, verbose, asl_files, file_idx, failed_files, printed>>
    /\ UNCHANGED validator_vars
    /\ UNCHANGED pool_vars
    /\ UNCHANGED lambda_vars

\* an exception that leaves validate() is caught nowhere: the interpreter
\* prints the traceback and the process ends with status 1
main_uncaught ==
    /\ pc = "raised"
    /\ file_idx >= 1
    /\ exit_status' = "1"
    /\ pc' = "exited"
    /\ UNCHANGED <<first, strict, quiet, verbose, asl_files, file_idx, failed_files, printed>>
    /\ UNCHANGED validator_vars
    /\ UNCHANGED pool_vars
    /\ UNCHANGED lambda_vars

----------------------------------------------------------------------------
(* The files: the documents a validator is run on *)

\* the most states a document has
MaxStates == 2
\* the longest Choices or Catch array
MaxEntries == 2
\* the most files main() is given
MaxFiles == 2

StateNames(n) == {KeyOrder[i] : i \in 1..n}

Seqs(S, n) == UNION {[1..m -> S] : m \in 0..n}

\* transition targets: the state names and a name no document defines
Targets == StateNames(MaxStates) \cup {"Z"}

Typed(ty) == "Type" :> Str(ty)
Ended == "End" :> Bool(TRUE)

ArnLambda == "arn:aws:lambda:eu-west-1:123456789012:function:f"
ArnRole == "arn:aws:iam::210987654321:role/r"
ArnService == "arn:aws:states:::lambda:invoke"
ArnShort == "arn:aws:iam::12345678901:role/r"
ArnLong == "arn:aws:iam::1234567890123:role/r"
ArnUpper == "arn:aws:S3::123456789012:bucket"
ArnTwice == "arn:aws:sqs:eu-west-1:123456789012:q arn:aws:sns:eu-west-1:123456789012:t"
ArnNoTail == "arn:aws:iam::123456789012"

ArnStrings ==
    {ArnLambda, ArnRole, ArnService, ArnShort, ArnLong, ArnUpper, ArnTwice, ArnNoTail}

PassEnd == Obj(Typed("Pass") @@ Ended)
PassNext(t) == Obj(Typed("Pass") @@ "Next" :> Str(t))
SucceedState == Obj(Typed("Succeed"))
ChoiceTo(t) == Obj(Typed("Choice") @@ "Choices" :> Arr(<<Obj("Next" :> Str(t))>>))
ChoiceDefault(t) ==
    Obj(Typed("Choice") @@ "Choices" :> Arr(<<Obj("Next" :> Str("A"))>>)
        @@ "Default" :> Str(t))
TaskCatch(t) ==
    Obj(Typed("Task") @@ Ended @@ "Resource" :> Str(ArnService)
        @@ "Catch" :> Arr(<<Obj("Next" :> Str(t))>>))
TaskCredentials ==
    Obj(Typed("Task") @@ Ended @@ "Resource" :> Str(ArnLambda)
        @@ "Retry" :> Arr(<<>>) @@ "Credentials" :> Obj("RoleArn" :> Str(ArnRole)))

\* the states of the graph documents: every edge kind, to every target
GraphDefs ==
    {PassEnd, SucceedState}
    \cup {PassNext(t) : t \in Targets}
    \cup {ChoiceTo(t) : t \in Targets}
    \cup {ChoiceDefault(t) : t \in Targets}
    \cup {TaskCatch(t) : t \in Targets}

\* the values a Type holds that are not one of the eight tags
TypeValues ==
    {Null, Str(""), Num(0), Bool(FALSE), Arr(<<>>), EmptyObj, Str("Bogus"),
     Str("task"), Num(5), Bool(TRUE), Arr(<<Str("Task")>>),
     Obj("Next" :> Str("A"))}

BadTypeDefs ==
    {Obj("Type" :> tv) : tv \in TypeValues}
    \cup {Obj("Type" :> tv @@ "Next" :> Str("Z")) : tv \in {Str("Bogus"), Num(5)}}
    \cup {EmptyObj, Obj(Ended)}

NonObjectDefs == {Num(5), Null, Str("Pass"), Arr(<<>>), Bool(TRUE)}

TransitionFields ==
    {<<>>, Ended, "End" :> Bool(FALSE), "Next" :> Str("A"),
     "End" :> Bool(FALSE) @@ "Next" :> Str("A"),
     "End" :> Num(1), "End" :> Str("no"), "End" :> Null}

TransitionDefs ==
    {Obj(Typed(ty) @@ f) : ty \in VALID_STATE_TYPES, f \in TransitionFields}

EntryValues == {Obj("Next" :> Str("A")), Obj("Next" :> Str("Z")), EmptyObj, Num(5)}

OddEntryValues ==
    {Str("x"), Str("Next"), Arr(<<Str("Next")>>), Obj("Next" :> Arr(<<>>)),
     Obj("Next" :> Num(5)), Null}

\* the values of a Choices or a Catch field
EntriesValues ==
    {Num(5), Null, Str("ab"), EmptyObj}
    \cup {Arr(q) : q \in Seqs(EntryValues, MaxEntries)}
    \cup {Arr(<<e>>) : e \in OddEntryValues}

ChoiceDefs ==
    {Obj(Typed("Choice"))}
    \cup {Obj(Typed("Choice") @@ "Choices" :> c) : c \in EntriesValues}
    \cup {Obj(Typed("Choice") @@ "Choices" :> c @@ "Default" :> Str("A")) :
             c \in EntriesValues}
    \cup {Obj(Typed("Choice") @@ "Choices" :> Arr(<<Obj("Next" :> Str("A"))>>)
              @@ "Default" :> dv) : dv \in {Str("Z"), Num(5), Arr(<<>>), Null}}

CatchDefs ==
    {Obj(Typed("Task") @@ Ended @@ "Resource" :> Str(ArnService) @@ "Catch" :> c) :
        c \in EntriesValues}

TaskDefs ==
    {Obj(Typed("Task") @@ Ended @@ r @@ h) :
        r \in {<<>>} \cup {"Resource" :> Str(a) : a \in ArnStrings},
        h \in {<<>>, "Retry" :> Arr(<<>>), "Catch" :> Arr(<<>>),
               "Retry" :> Arr(<<>>) @@ "Catch" :> Arr(<<>>)}}

CredentialsValues ==
    {EmptyObj, Obj("RoleArn" :> Str(ArnRole)), Obj("RoleArn.$" :> Str("$.role")),
     Num(5), Null, Str("x"), Str("RoleArn"), Arr(<<>>), Arr(<<Str("RoleArn")>>)}

CredentialsDefs ==
    {Obj(Typed("Task") @@ Ended @@ "Resource" :> Str(ArnService)
         @@ "Retry" :> Arr(<<>>) @@ "Credentials" :> c) : c \in CredentialsValues}

WaitDefs ==
    {Obj([f \in S \cup {"Type", "End"} |->
            IF f = "Type" THEN Str("Wait")
            ELSE IF f = "End" THEN Bool(TRUE) ELSE Num(1)]) :
        S \in SUBSET wait_fields}

\* a sub-definition nested in a Parallel or a Map state
Nested(next) ==
    Obj("StartAt" :> Str("X")
        @@ "States" :> Obj("X" :> Obj(Typed("Pass") @@ "Next" :> Str(next))
                           @@ "Y" :> SucceedState))

\* a sub-definition whose one state names an account
NestedTask ==
    Obj("StartAt" :> Str("X")
        @@ "States" :> Obj("X" :> Obj(Typed("Task") @@ Ended
                                      @@ "Resource" :> Str(ArnUpper \o " " \o ArnTwice))))

MapDefs ==
    {Obj(Typed("Map") @@ Ended @@ f) :
        f \in {<<>>, "ItemProcessor" :> Nested("Y"), "Iterator" :> Nested("Q"),
               "ItemProcessor" :> Nested("Y") @@ "Iterator" :> Nested("Y")}}

\* a sub-definition whose states bear the names of top-level states
NestedNamesake ==
    Obj("StartAt" :> Str("B")
        @@ "States" :> Obj("B" :> Obj(Typed("Pass") @@ "Next" :> Str("Z"))))

ParallelDefs ==
    {Obj(Typed("Parallel") @@ Ended),
     Obj(Typed("Pass") @@ Ended @@ "Branches" :> Num(5)),
     Obj(Typed("Pass") @@ "Next" :> Str("A") @@ "Branches" :> Num(5))}
    \cup {Obj(Typed("Parallel") @@ Ended @@ "Branches" :> b) :
             b \in {Num(5), Str("ab"), Arr(<<>>), Arr(<<Nested("Y")>>),
                    Arr(<<Nested("Q"), Num(5)>>), Arr(<<NestedTask>>),
                    Arr(<<NestedNamesake>>)}}

OddTargetDefs ==
    {Obj(Typed("Pass") @@ "Next" :> t) : t \in {Num(5), Null, Arr(<<>>), Bool(TRUE)}}
    \cup {Obj(Typed("Pass") @@ Ended @@ "Default" :> Str("Z")),
          Obj(Typed("Pass") @@ Ended
              @@ "Choices" :> Arr(<<Obj("Next" :> Str("Z"))>>))}

\* the states of the shape documents: one rule of the validator each
ShapeDefs ==
    BadTypeDefs \cup NonObjectDefs \cup TransitionDefs \cup ChoiceDefs
    \cup CatchDefs \cup TaskDefs \cup CredentialsDefs \cup WaitDefs \cup MapDefs
    \cup ParallelDefs \cup OddTargetDefs

\* the states beside the one state a shape document varies
PlainDefs == {PassEnd, TaskCredentials}

Root(start, states_) == Obj("StartAt" :> start @@ "States" :> states_)

\* every graph over at most MaxStates states, started anywhere
GraphDocuments ==
    {Root(Str(s), Obj(f)) :
        s \in {"A", "B", "Z"},
        f \in UNION {[StateNames(n) -> GraphDefs] : n \in 1..MaxStates}}

\* one state of any shape at any position, beside plain states
ShapeDocuments ==
    {Root(Str("A"), Obj([f EXCEPT ![at] = sd])) :
        sd \in ShapeDefs,
        at \in StateNames(MaxStates),
        f \in UNION {[StateNames(n) -> PlainDefs] : n \in 1..MaxStates}}
    \ {Root(Str("A"), Obj(f)) :
          f \in UNION {[StateNames(n) -> PlainDefs] : n \in 1..MaxStates}}

StartAtValues ==
    {Str("A"), Str("Z"), Str(""), Num(5), Num(0), Null, Arr(<<>>),
     Arr(<<Str("A")>>), EmptyObj}

StatesValues ==
    {EmptyObj, Obj("A" :> PassEnd), Arr(<<>>), Arr(<<Str("A")>>), Str("A"),
     Str(""), Num(5), Null, Obj("" :> PassEnd), Obj("" :> PassEnd @@ "B" :> PassEnd)}

\* the documents whose root, StartAt or States is not what ASL asks for
RootDocuments ==
    {Num(5), Null, Bool(TRUE), Str("x"), Str("StartAt States"), Arr(<<>>),
     Arr(<<Str("StartAt"), Str("States")>>), EmptyObj}
    \cup {Obj("StartAt" :> s) : s \in StartAtValues}
    \cup {Obj("States" :> st) : st \in StatesValues}
    \cup {Root(s, st) : s \in StartAtValues, st \in StatesValues}

Documents == GraphDocuments \cup ShapeDocuments \cup RootDocuments

File(kind, json) == [kind |-> kind, json |-> json]

LoadFailures ==
    {File(kind, Null) : kind \in {"invalid_json", "not_found", "read_error"}}

Files == {File("json", d) : d \in Documents} \cup LoadFailures

\* the files of the batch driver: one of each outcome of validate()
MainFiles ==
    LoadFailures
    \cup {File("json", d) :
            d \in {Root(Str("A"), Obj("A" :> PassEnd)),
                   Root(Str("A"), Obj("A" :> PassEnd @@ "B" :> SucceedState)),
                   Root(Str("A"), Obj("A" :> TaskCredentials)),
                   Root(Str("Z"), Obj("A" :> TaskCatch("A"))),
                   Root(Str("A"), Obj("A" :> PassNext("Z"))),
                   Obj("StartAt" :> Str("A")),
                   Root(Str("A"), Arr(<<>>)),
                   Num(5)}}

----------------------------------------------------------------------------
(* A validator on one file: validate() called once *)

Init ==
    /\ \E file \in Files : content = file
    /\ definition = EmptyObj
    /\ errors = <<>>
    /\ warnings = <<>>
    /\ info = <<>>
    /\ reachable = {}
    /\ enqueued = 0
    /\ queue = <<>>
    /\ result = "none"
    /\ raised_in = ""
    /\ pc = "load"
    /\ strict = FALSE
    /\ quiet = FALSE
    /\ verbose = FALSE
    /\ asl_files = 0
    /\ file_idx = 0
    /\ failed_files = <<>>
    /\ printed = <<>>
    /\ exit_status = "running"
    /\ first = NoSnapshot
    /\ validators = <<>>
    /\ heap = <<>>
    /\ NoLambda

Next == validate

Spec == Init /\ [][Next]_vars

\* `validator = ASLValidator(file_path)` on a file of any content
construct ==
    /\ pc = "construct"
    /\ \E file \in Files : Construct(file)
    /\ pc' = "load"
    /\ UNCHANGED main_vars
    /\ UNCHANGED pool_vars
    /\ UNCHANGED lambda_vars

InitFair ==
    /\ content = File("not_found", Null)
    /\ definition = EmptyObj
    /\ errors = <<>>
    /\ warnings = <<>>
    /\ info = <<>>
    /\ reachable = {}
    /\ enqueued = 0
    /\ queue = <<>>
    /\ result = "none"
    /\ raised_in = ""
    /\ pc = "construct"
    /\ strict = FALSE
    /\ quiet = FALSE
    /\ verbose = FALSE
    /\ asl_files = 0
    /\ file_idx = 0
    /\ failed_files = <<>>
    /\ printed = <<>>
    /\ exit_status = "running"
    /\ first = NoSnapshot
    /\ validators = <<>>
    /\ heap = <<>>
    /\ NoLambda

NextFair ==
    \/ construct
    \/ validate

\* the interpreter goes on running the loop of the traversal, and what follows
\* the loop, while there is an iteration to run
SpecFair ==
    /\ InitFair /\ [][NextFair]_vars
    /\ WF_vars(unreachable_step)
    /\ WF_vars(unreachable_end)

----------------------------------------------------------------------------
(* main() on a list of files *)

\* `for file_path in asl_files: validator = ASLValidator(file_path)`
main_next_file ==
    /\ pc = "next_file"
    /\ file_idx < asl_files
    /\ file_idx' = file_idx + 1
    /\ \E file \in MainFiles : Construct(file)
    /\ pc' = "load"
    /\ printed' = <<>>
    /\ UNCHANGED <<first, strict, quiet, verbose, asl_files, failed_files, exit_status>>
    /\ UNCHANGED pool_vars
    /\ UNCHANGED lambda_vars

InitMain ==
    /\ content = File("not_found", Null)
    /\ definition = EmptyObj
    /\ errors = <<>>
    /\ warnings = <<>>
    /\ info = <<>>
    /\ reachable = {}
    /\ enqueued = 0
    /\ queue = <<>>
    /\ result = "none"
    /\ raised_in = ""
    /\ pc = "main"
    /\ strict \in BOOLEAN
    /\ quiet \in BOOLEAN
    /\ verbose \in BOOLEAN
    /\ asl_files \in 0..MaxFiles
    /\ file_idx = 0
    /\ failed_files = <<>>
    /\ printed = <<>>
    /\ exit_status = "running"
    /\ first = NoSnapshot
    /\ validators = <<>>
    /\ heap = <<>>
    /\ NoLambda

NextMain ==
    \/ main_begin
    \/ main_next_file
    \/ validate
    \/ main_record
    \/ main_end
    \/ main_uncaught

SpecMain == InitMain /\ [][NextMain]_vars

----------------------------------------------------------------------------
(* A pool of validators, one per file, whose checks interleave.  A         *)
(* validator's attributes errors, warnings and info are references to list *)
(* objects of the heap; the locals of a check (states, reachable, queue,   *)
(* next_states) live in its own frame, so a check is one step.             *)

\* the most validators in the pool
MaxWorkers == 2

Workers == 1..MaxWorkers

RECURSIVE Traverse(_, _, _)
\* `while queue`: the visited set at the end, or the exception
Traverse(states_, q, reached) ==
    IF q = <<>> THEN [reached |-> reached, raised |-> FALSE]
    ELSE LET current == Head(q)
         IN  IF StepRaises(current, states_, reached)
             THEN [reached |-> reached, raised |-> TRUE]
             ELSE IF Skipped(current, states_, reached)
             THEN Traverse(states_, Tail(q), reached)
             ELSE Traverse(states_,
                           IF states_.v[current.v].k # "obj" THEN Tail(q)
                           ELSE Tail(q) \o NextStates(states_.v[current.v]).items,
                           reached \cup {current.v})

Appended(e, w, i, raised) == [e |-> e, w |-> w, i |-> i, raised |-> raised]

NoInfo(r) == Appended(r.e, r.w, <<>>, r.raised)

\* what _detect_unreachable_states may append: the warnings come in the
\* order the set of unreachable names happens to iterate
_detect_unreachable_states(d) ==
    IF d.k # "obj" THEN {Appended(<<>>, <<>>, <<>>, TRUE)}
    ELSE IF ~Truthy(StatesOf(d)) \/ ~Truthy(Get(d, "StartAt", Null))
    THEN {Appended(<<>>, <<>>, <<>>, FALSE)}
    ELSE LET t == Traverse(StatesOf(d), <<Get(d, "StartAt", Null)>>, {})
         IN  IF t.raised THEN {Appended(<<>>, <<>>, <<>>, TRUE)}
             ELSE {Appended(<<>>,
                            [i \in DOMAIN order |->
                                Diag("Unreachable", order[i], 0, Null)],
                            <<>>, FALSE) :
                      order \in Orders(Unreachable(StatesOf(d), t.reached))}

\* what _check_hardcoded_arns may append
_check_hardcoded_arns(d) ==
    IF unique_accounts(d) = {} THEN {Appended(<<>>, <<>>, <<>>, FALSE)}
    ELSE {Appended(<<>>,
                   <<Diag("HardcodedAccounts", "", 0,
                          Arr([i \in DOMAIN order |-> Str(order[i])]))>>,
                   <<>>, FALSE) :
             order \in Orders(unique_accounts(d))}

\* the checks of validate() in order
Checks ==
    <<"required_fields", "start_at", "states", "state_references",
      "terminal_states", "unreachable_states", "cross_account", "hardcoded_arns">>

CheckAfter(c) ==
    IF c = "hardcoded_arns" THEN "done"
    ELSE Checks[1 + CHOOSE i \in DOMAIN Checks : Checks[i] = c]

\* what the check `c` may append on the definition d
Outcomes(c, d) ==
    CASE c = "required_fields" -> {NoInfo(_validate_required_fields(d))}
      [] c = "start_at" -> {NoInfo(_validate_start_at(d))}
      [] c = "states" -> {NoInfo(_validate_states(d))}
      [] c = "state_references" -> {NoInfo(_validate_state_references(d))}
      [] c = "terminal_states" -> {NoInfo(_validate_terminal_states(d))}
      [] c = "unreachable_states" -> _detect_unreachable_states(d)
      [] c = "cross_account" ->
            LET r == _check_cross_account_patterns(d)
            IN  {Appended(<<>>, r.w, r.i, r.raised)}
      [] c = "hardcoded_arns" -> _check_hardcoded_arns(d)

\* a list attribute shared by every instance, as a class attribute would be
class_level_list(w, field) == <<1, field>>

\* __init__: `self.errors = []`, a new list for each instance
NewList(w, field) == <<w, field>>

ListFields == {"errors", "warnings", "info"}

\* ASLValidator(file_path)
NewValidator(w, file) ==
    [content |-> file, definition |-> EmptyObj, pc |-> "load", result |-> "none",
     raised_in |-> "", errors |-> NewList(w, "errors"),
     warnings |-> NewList(w, "warnings"), info |-> NewList(w, "info")]

\* the files given to the pool
PoolFiles == MainFiles

\* validate() of the validator w, up to the return of load()
worker_load(w) ==
    /\ validators[w].pc = "load"
    /\ LET v == validators[w]
       IN  IF LoadOk(v.content)
           THEN /\ validators' = [validators EXCEPT
                                     ![w].definition = v.content.json,
                                     ![w].pc = "required_fields"]
                /\ UNCHANGED heap
           ELSE /\ heap' = [heap EXCEPT
                               ![v.errors] = Append(@, LoadError(v.content.kind))]
                /\ validators' = [validators EXCEPT
                                     ![w].result = "False", ![w].pc = "done"]
    /\ UNCHANGED <<validator_vars, main_vars, pc>>
    /\ UNCHANGED lambda_vars

\* the next check of the validator w; after the last one, validate() returns
worker_check(w) ==
    /\ validators[w].pc \notin {"load", "done", "raised"}
    /\ LET v == validators[w]
       IN  \E r \in Outcomes(v.pc, v.definition) :
               LET h1 == [heap EXCEPT ![v.errors] = @ \o r.e]
                   h2 == [h1 EXCEPT ![v.warnings] = @ \o r.w]
                   h3 == [h2 EXCEPT ![v.info] = @ \o r.i]
               IN  /\ heap' = h3
                   /\ validators' =
                         IF r.raised
                         THEN [validators EXCEPT ![w].pc = "raised",
                                                 ![w].raised_in = v.pc]
                         ELSE IF v.pc = "hardcoded_arns"
                         THEN [validators EXCEPT ![w].pc = "done",
                                                 ![w].result = Verdict(h3[v.errors])]
                         ELSE [validators EXCEPT ![w].pc = CheckAfter(v.pc)]
    /\ UNCHANGED <<validator_vars, main_vars, pc>>
    /\ UNCHANGED lambda_vars

InitPool ==
    /\ content = File("not_found", Null)
    /\ definition = EmptyObj
    /\ errors = <<>>
    /\ warnings = <<>>
    /\ info = <<>>
    /\ reachable = {}
    /\ enqueued = 0
    /\ queue = <<>>
    /\ result = "none"
    /\ raised_in = ""
    /\ pc = "pool"
    /\ strict = FALSE
    /\ quiet = FALSE
    /\ verbose = FALSE
    /\ asl_files = MaxWorkers
    /\ file_idx = 0
    /\ failed_files = <<>>
    /\ printed = <<>>
    /\ exit_status = "running"
    /\ first = NoSnapshot
    /\ \E files \in [Workers -> PoolFiles] :
          validators = [w \in Workers |-> NewValidator(w, files[w])]
    /\ heap = [id \in {NewList(w, f) : w \in Workers, f \in ListFields} |-> <<>>]
    /\ NoLambda

NextPool ==
    \/ \E w \in Workers : worker_load(w)
    \/ \E w \in Workers : worker_check(w)

SpecPool == InitPool /\ [][NextPool]_vars

----------------------------------------------------------------------------
(* lambdas/check-flag-file/check_flag_file.py: write, check and delete of  *)
(* a flag file under one base path of the mount.  Each invocation of       *)
(* lambda_handler advances one file-system call at a time, so that the     *)
(* invocations in flight interleave as concurrent Lambda executions do.    *)
(* Nothing but these invocations touches the base path, and the mount      *)
(* raises no PermissionError.                                              *)

\* the invocations that may be in flight together
MaxCalls == 2
Calls == 1..MaxCalls

\* the last reading of the clock
MaxTime == 2

\* event["flag_id"]; uuid4()[:8] may produce any of them too
FlagIds == {"a", "b"}

\* event["timeout_seconds"]
Timeouts == {0, 1}

\* event["action"]; "purge" stands for every unknown action
EventActions == {"write", "check", "delete", "purge"}

FLAG_FILE_PREFIX == ".replication-check-"

\* os.path.join(base_path, f"{FLAG_FILE_PREFIX}{flag_id}"), relative to base_path
flag_path(flag_id) == FLAG_FILE_PREFIX \o flag_id

FlagPaths == {flag_path(f) : f \in FlagIds}

\* a path with no file behind it
NoFile == [there |-> FALSE, ino |-> 0, text |-> "", created_at |-> 0]

\* the file open(flag_path, 'w') creates: a new inode, nothing written yet
NewFile(ino) == [there |-> TRUE, ino |-> ino, text |-> "", created_at |-> 0]

\* every file that parses is valid, whatever its age
always_valid(age_seconds, timeout_seconds) == TRUE

\* `valid = age_seconds <= timeout_seconds`
IsValid(age_seconds, timeout_seconds) == age_seconds <= timeout_seconds

\* the body of a response, with None as "None" and as -1
Response(statusCode, error, exists_, valid, content_, age_seconds, deleted) ==
    [statusCode |-> statusCode, error |-> error, exists |-> exists_,
     valid |-> valid, content |-> content_, age_seconds |-> age_seconds,
     deleted |-> deleted]

NoResponse == Response(0, "", FALSE, FALSE, "None", -1, FALSE)

\* error_response(status_code, error_code, message)
error_response(status_code, error_code) ==
    Response(status_code, error_code, FALSE, FALSE, "None", -1, FALSE)

\* an execution environment with no invocation in it
Idle ==
    [action |-> "", flag_id |-> "", timeout_seconds |-> 0, pc |-> "idle",
     exists |-> FALSE, ino |-> 0, created_at |-> 0,
     overlapped |-> FALSE, expect |-> "", response |-> NoResponse]

\* the invocation ends with a response: its locals are gone
Return(call, response) ==
    [Idle EXCEPT !.action = call.action, !.flag_id = call.flag_id,
                 !.timeout_seconds = call.timeout_seconds,
                 !.expect = call.expect,
                 !.pc = "returned", !.response = response]

InFlight(j) == calls[j].pc \notin {"idle", "returned"}

\* the invocations in flight that write or delete the flag f
Writing(f) == {j \in Calls : InFlight(j) /\ calls[j].action = "write"
                                         /\ calls[j].flag_id = f}
Deleting(f) == {j \in Calls : InFlight(j) /\ calls[j].action = "delete"
                                          /\ calls[j].flag_id = f}
Checking(f) == {j \in Calls : InFlight(j) /\ calls[j].action = "check"
                                          /\ calls[j].flag_id = f}

\* an inode number no file at this path and no writer of it holds
FreshIno(f) ==
    CHOOSE n \in 1..(MaxCalls + 1) :
        /\ ~(efs.files[flag_path(f)].there /\ efs.files[flag_path(f)].ino = n)
        /\ \A j \in Writing(f) : calls[j].pc = "write_dump" => calls[j].ino # n

\* what the flag f is known to be once an invocation on it begins: a write
\* ends the time after a delete, a delete ends the time after a write
SettledAtStart(action, f) ==
    IF action = "delete" THEN "unsettled"
    ELSE IF action = "write" /\ settled[f] = "deleted" THEN "unsettled"
    ELSE settled[f]

\* what the flag-file handler leaves alone
rest_vars == <<validator_vars, main_vars, pc, pool_vars, finder, db>>

\* lambda_handler up to the dispatch, and the first lines of the function
\* it dispatches to: the flag id is resolved, no file-system call is made
invoke(i) ==
    /\ calls[i].pc = "idle"
    /\ \E action \in EventActions, id \in FlagIds \cup {""},
          timeout_seconds \in Timeouts, uuid \in FlagIds :
          LET f == IF action = "write" /\ id = "" THEN uuid ELSE id
              call == [Idle EXCEPT !.action = action, !.flag_id = f,
                                   !.timeout_seconds = IF action = "check"
                                                       THEN timeout_seconds ELSE 0]
          IN  IF action = "purge"
              THEN /\ calls' = [calls EXCEPT ![i] =
                         Return(call, error_response(400, "INVALID_ACTION"))]
                   /\ UNCHANGED settled
              ELSE IF f = ""
              THEN /\ calls' = [calls EXCEPT ![i] =
                         Return(call, error_response(400, "MISSING_FLAG_ID"))]
                   /\ UNCHANGED settled
              ELSE LET after == SettledAtStart(action, f)
                       others == IF action = "write" THEN Deleting(f)
                                 ELSE IF action = "delete" THEN Writing(f)
                                 ELSE {}
                       mine == [call EXCEPT
                                   !.pc = IF action = "write" THEN "write_dir"
                                          ELSE IF action = "check" THEN "check_exists"
                                          ELSE "delete_exists",
                                   !.overlapped = others # {},
                                   !.expect = IF action = "check" THEN settled[f] ELSE ""]
                   IN  /\ calls' = [j \in Calls |->
                              IF j = i THEN mine
                              ELSE IF j \in others
                              THEN [calls[j] EXCEPT !.overlapped = TRUE]
                              ELSE IF j \in Checking(f) /\ after # settled[f]
                              THEN [calls[j] EXCEPT !.expect = "unsettled"]
                              ELSE calls[j]]
                       /\ settled' = [settled EXCEPT ![f] = after]
    /\ UNCHANGED <<efs, clock>>
    /\ UNCHANGED rest_vars

\* write_flag_file: `if not os.path.exists(base_path): os.makedirs(...)`
write_dir(i) ==
    /\ calls[i].pc = "write_dir"
    /\ efs' = [efs EXCEPT !.dir = TRUE]
    /\ calls' = [calls EXCEPT ![i].pc = "write_open"]
    /\ UNCHANGED <<clock, settled>>
    /\ UNCHANGED rest_vars

\* write_flag_file: the content is stamped, then `open(flag_path, 'w')`
\* creates the file or truncates the one that is there
write_open(i) ==
    /\ calls[i].pc = "write_open"
    /\ LET p == flag_path(calls[i].flag_id)
           file == IF efs.files[p].there
                   THEN [efs.files[p] EXCEPT !.text = "", !.created_at = 0]
                   ELSE NewFile(FreshIno(calls[i].flag_id))
       IN  /\ efs' = [efs EXCEPT !.files[p] = file]
           /\ calls' = [calls EXCEPT ![i].pc = "write_dump",
                                     ![i].ino = file.ino,
                                     ![i].created_at = clock]
    /\ UNCHANGED <<clock, settled>>
    /\ UNCHANGED rest_vars

\* write_flag_file: json.dump and the close of the file, then the response.
\* The bytes go to the inode that was opened: to nowhere if the path has
\* been removed since, and over the bytes of a writer that held the same
\* inode, which leaves its JSON or a mix of the two.
write_dump(i) ==
    /\ calls[i].pc = "write_dump"
    /\ LET f == calls[i].flag_id
           p == flag_path(f)
           file == efs.files[p]
           mine == [file EXCEPT !.text = "json", !.created_at = calls[i].created_at]
           mixed == [file EXCEPT !.text = "garbage", !.created_at = 0]
       IN  /\ IF file.there /\ file.ino = calls[i].ino
              THEN \/ efs' = [efs EXCEPT !.files[p] = mine]
                   \/ /\ file.text # ""
                      /\ efs' = [efs EXCEPT !.files[p] = mixed]
              ELSE UNCHANGED efs
           /\ calls' = [calls EXCEPT ![i] = Return(calls[i], Response(200, "", FALSE, FALSE, "None", -1, FALSE))]
           /\ settled' = IF calls[i].overlapped THEN settled
                         ELSE [settled EXCEPT ![f] = "written"]
    /\ UNCHANGED clock
    /\ UNCHANGED rest_vars

\* check_flag_file: `exists = os.path.exists(flag_path)`
check_exists(i) ==
    /\ calls[i].pc = "check_exists"
    /\ LET file == efs.files[flag_path(calls[i].flag_id)]
       IN  IF efs.dir /\ file.there
           THEN calls' = [calls EXCEPT ![i].pc = "check_read", ![i].exists = TRUE]
           ELSE calls' = [calls EXCEPT ![i] = Return(calls[i], Response(200, "", FALSE, FALSE, "None", -1, FALSE))]
    /\ UNCHANGED <<efs, clock, settled>>
    /\ UNCHANGED rest_vars

\* check_flag_file: `if exists:` open, json.load, the age and the response;
\* lambda_handler turns the FileNotFoundError of open() into a 404
check_read(i) ==
    /\ calls[i].pc = "check_read"
    /\ LET file == efs.files[flag_path(calls[i].flag_id)]
           age_seconds == clock - file.created_at
           response ==
               IF ~file.there
               THEN error_response(404, "PATH_NOT_FOUND")
               ELSE IF file.text # "json"
               THEN Response(200, "", calls[i].exists, FALSE, "error", -1, FALSE)
               ELSE Response(200, "", calls[i].exists,
                             IsValid(age_seconds, calls[i].timeout_seconds),
                             "json", age_seconds, FALSE)
       IN  calls' = [calls EXCEPT ![i] = Return(calls[i], response)]
    /\ UNCHANGED <<efs, clock, settled>>
    /\ UNCHANGED rest_vars

\* delete_flag_file: `exists = os.path.exists(flag_path)`
delete_exists(i) ==
    /\ calls[i].pc = "delete_exists"
    /\ LET f == calls[i].flag_id
           file == efs.files[flag_path(f)]
       IN  IF efs.dir /\ file.there
           THEN /\ calls' = [calls EXCEPT ![i].pc = "delete_remove", ![i].exists = TRUE]
                /\ UNCHANGED settled
           ELSE /\ calls' = [calls EXCEPT ![i] = Return(calls[i], Response(200, "", FALSE, FALSE, "None", -1, FALSE))]
                /\ settled' = IF calls[i].overlapped THEN settled
                              ELSE [settled EXCEPT ![f] = "deleted"]
    /\ UNCHANGED <<efs, clock>>
    /\ UNCHANGED rest_vars

\* delete_flag_file: `if exists: os.remove(flag_path)` and the response;
\* lambda_handler turns the FileNotFoundError of os.remove() into a 404
delete_remove(i) ==
    /\ calls[i].pc = "delete_remove"
    /\ LET f == calls[i].flag_id
           p == flag_path(f)
       IN  IF efs.files[p].there
           THEN /\ efs' = [efs EXCEPT !.files[p] = NoFile]
                /\ calls' = [calls EXCEPT ![i] = Return(calls[i], Response(200, "", FALSE, FALSE, "None", -1, TRUE))]
                /\ settled' = IF calls[i].overlapped THEN settled
                              ELSE [settled EXCEPT ![f] = "deleted"]
           ELSE /\ calls' = [calls EXCEPT ![i] = Return(calls[i], error_response(404, "PATH_NOT_FOUND"))]
                /\ UNCHANGED <<efs, settled>>
    /\ UNCHANGED clock
    /\ UNCHANGED rest_vars

\* the caller has the response; the execution environment is free again
returned(i) ==
    /\ calls[i].pc = "returned"
    /\ calls' = [calls EXCEPT ![i] = Idle]
    /\ UNCHANGED <<efs, clock, settled>>
    /\ UNCHANGED rest_vars

\* time passes
tick ==
    /\ clock < MaxTime
    /\ clock' = clock + 1
    /\ UNCHANGED <<efs, calls, settled>>
    /\ UNCHANGED rest_vars

InitFlag ==
    /\ content = File("not_found", Null)
    /\ definition = EmptyObj
    /\ errors = <<>>
    /\ warnings = <<>>
    /\ info = <<>>
    /\ reachable = {}
    /\ enqueued = 0
    /\ queue = <<>>
    /\ result = "none"
    /\ raised_in = ""
    /\ pc = "lambda"
    /\ strict = FALSE
    /\ quiet = FALSE
    /\ verbose = FALSE
    /\ asl_files = 0
    /\ file_idx = 0
    /\ failed_files = <<>>
    /\ printed = <<>>
    /\ exit_status = "running"
    /\ first = NoSnapshot
    /\ validators = <<>>
    /\ heap = <<>>
    /\ \E dir \in BOOLEAN : efs = [dir |-> dir, files |-> [p \in FlagPaths |-> NoFile]]
    /\ clock = 0
    /\ calls = [i \in Calls |-> Idle]
    /\ settled = [f \in FlagIds |-> "none"]
    /\ finder = <<>>
    /\ db = <<>>

NextFlag ==
    \/ \E i \in Calls : invoke(i)
    \/ \E i \in Calls : write_dir(i)
    \/ \E i \in Calls : write_open(i)
    \/ \E i \in Calls : write_dump(i)
    \/ \E i \in Calls : check_exists(i)
    \/ \E i \in Calls : check_read(i)
    \/ \E i \in Calls : delete_exists(i)
    \/ \E i \in Calls : delete_remove(i)
    \/ \E i \in Calls : returned(i)
    \/ tick

SpecFlag == InitFlag /\ [][NextFlag]_vars

----------------------------------------------------------------------------
(* lambdas/get-efs-subpath/get_efs_subpath.py: the handler that finds the  *)
(* directory a backup restore left under the mount.                        *)

BACKUP_PREFIX == "aws-backup-restore_"

\* the names an entry of the mount may have
ItemNames == {"aws-backup-restore_1", "aws-backup-restore_2", "aws-backup", "data"}

\* what is behind a name: nothing, a directory, a file
ItemKinds == {"absent", "dir", "file"}

\* event["expected_prefix"], when the event has one
PrefixValues ==
    {Str(BACKUP_PREFIX), Str("aws-backup"), Str("data"), Str(""), Str("efs"),
     Num(5), Null}

FinderEvents ==
    {EmptyObj} \cup {Obj("expected_prefix" :> v) : v \in PrefixValues}

\* the mount: absent, or a directory with entries
Mounts ==
    {[there |-> FALSE, items |-> [n \in ItemNames |-> "absent"]]}
    \cup {[there |-> TRUE, items |-> items] : items \in [ItemNames -> ItemKinds]}

\* item.startswith(prefix) on two strings
StartsWith(item, prefix) ==
    /\ Len(prefix) <= Len(item)
    /\ SubSeq(item, 1, Len(prefix)) = prefix

\* os.listdir(EFS_MOUNT_PATH)
ListDir(mount) == {n \in ItemNames : mount.items[n] # "absent"}

FinderResponse(statusCode, error, subpath) ==
    [statusCode |-> statusCode, error |-> error, subpath |-> subpath]

\* lambda_handler of get_efs_subpath.py
get_efs_subpath(mount, event) ==
    LET prefix == Get(event, "expected_prefix", Str(BACKUP_PREFIX))
        items == ListDir(mount)
        backup_dirs == {item \in items :
                           StartsWith(item, prefix.v) /\ mount.items[item] = "dir"}
    IN  IF ~mount.there
        THEN FinderResponse(404, "EFS_NOT_FOUND", "")
        ELSE IF items # {} /\ prefix.k # "str"
        THEN FinderResponse(500, "INTERNAL_ERROR", "")
        ELSE IF prefix.k # "str" \/ backup_dirs = {}
        THEN FinderResponse(404, "EFS_NOT_FOUND", "")
        ELSE IF Cardinality(backup_dirs) > 1
        THEN FinderResponse(500, "INTERNAL_ERROR", "")
        ELSE FinderResponse(200, "", CHOOSE item \in backup_dirs : TRUE)

\* one invocation of the handler
find_subpath ==
    /\ finder.pc = "invoked"
    /\ finder' = [finder EXCEPT !.pc = "returned",
                                !.response = get_efs_subpath(finder.mount, finder.event)]
    /\ UNCHANGED <<validator_vars, main_vars, pc, pool_vars>>
    /\ UNCHANGED <<efs, clock, calls, settled, db>>

InitFinder ==
    /\ content = File("not_found", Null)
    /\ definition = EmptyObj
    /\ errors = <<>>
    /\ warnings = <<>>
    /\ info = <<>>
    /\ reachable = {}
    /\ enqueued = 0
    /\ queue = <<>>
    /\ result = "none"
    /\ raised_in = ""
    /\ pc = "lambda"
    /\ strict = FALSE
    /\ quiet = FALSE
    /\ verbose = FALSE
    /\ asl_files = 0
    /\ file_idx = 0
    /\ failed_files = <<>>
    /\ printed = <<>>
    /\ exit_status = "running"
    /\ first = NoSnapshot
    /\ validators = <<>>
    /\ heap = <<>>
    /\ efs = <<>>
    /\ clock = 0
    /\ calls = <<>>
    /\ settled = <<>>
    /\ db = <<>>
    /\ \E mount \in Mounts, event \in FinderEvents :
          finder = [mount |-> mount, event |-> event, pc |-> "invoked",
                    response |-> FinderResponse(0, "", "")]

NextFinder == find_subpath

SpecFinder == InitFinder /\ [][NextFinder]_vars

----------------------------------------------------------------------------
(* _detect_unreachable_states with the order of the work-list left open:   *)
(* the loop of lines 260-294 taking any pending name, not only the first,  *)
(* and appending the edges of a state in any order.                        *)

\* the work-list without its i-th name
Without(q, i) == SubSeq(q, 1, i - 1) \o SubSeq(q, i + 1, Len(q))

\* the orders in which the names of next_states may be appended
Shuffles(items) ==
    {[i \in DOMAIN items |-> items[p[i]]] :
        p \in {f \in [DOMAIN items -> DOMAIN items] :
                  \A j \in DOMAIN items : \E i \in DOMAIN items : f[i] = j}}

\* a skip that ends the loop, where the code goes on with the next name
after_break(rest) == <<>>

\* `continue`: the loop goes on with the rest of the work-list
AfterContinue(rest) == rest

\* one iteration of `while queue`, on any pending name
any_order_step ==
    /\ pc = "bfs"
    /\ queue # <<>>
    /\ \E i \in DOMAIN queue :
        LET current == queue[i]
            rest == Without(queue, i)
            states_ == StatesOf(definition)
        IN  IF StepRaises(current, states_, reachable)
            THEN /\ pc' = "raised"
                 /\ raised_in' = "unreachable_states"
                 /\ queue' = rest
                 /\ reachable' = IF VisitRaises(current, states_) THEN reachable
                                 ELSE reachable \cup {current.v}
            ELSE /\ UNCHANGED <<pc, raised_in>>
                 /\ IF Skipped(current, states_, reachable)
                    THEN queue' = AfterContinue(rest) /\ UNCHANGED reachable
                    ELSE /\ reachable' = reachable \cup {current.v}
                         /\ IF states_.v[current.v].k # "obj"
                            THEN queue' = AfterContinue(rest)
                            ELSE \E next_states \in
                                     Shuffles(NextStates(states_.v[current.v]).items) :
                                     queue' = rest \o next_states
    /\ enqueued' = enqueued + IF Len(queue') >= Len(queue)
                               THEN Len(queue') - Len(queue) + 1 ELSE 0
    /\ UNCHANGED <<content, definition, errors, warnings, info, result>>
    /\ UNCHANGED main_vars
    /\ UNCHANGED pool_vars
    /\ UNCHANGED lambda_vars

\* validate() comes to _detect_unreachable_states: the file loads and none of
\* the five checks before it raises
ComesToTraversal(file) ==
    /\ LoadOk(file)
    /\ \A c \in {"required_fields", "start_at", "states", "state_references",
                  "terminal_states"} :
           \A r \in Outcomes(c, file.json) : ~r.raised

InitOrder ==
    /\ \E file \in Files :
          ComesToTraversal(file) /\ content = file /\ definition = file.json
    /\ errors = <<>>
    /\ warnings = <<>>
    /\ info = <<>>
    /\ reachable = {}
    /\ enqueued = 0
    /\ queue = <<>>
    /\ result = "none"
    /\ raised_in = ""
    /\ pc = "unreachable_states"
    /\ strict = FALSE
    /\ quiet = FALSE
    /\ verbose = FALSE
    /\ asl_files = 0
    /\ file_idx = 0
    /\ failed_files = <<>>
    /\ printed = <<>>
    /\ exit_status = "running"
    /\ first = NoSnapshot
    /\ validators = <<>>
    /\ heap = <<>>
    /\ NoLambda

NextOrder ==
    \/ unreachable_begin
    \/ any_order_step
    \/ unreachable_end

SpecOrder == InitOrder /\ [][NextOrder]_vars

----------------------------------------------------------------------------
(* What the claims speak of, stated from the ASL data model and not from   *)
(* the validator: a document's states, its transitions, its terminal       *)
(* states, and the positions of a pass.                                    *)

\* the file was read and its content is JSON
Parses(file) == file.kind = "json"

Count(list, P(_)) == Cardinality({i \in DOMAIN list : P(list[i])})

\* the document parsed and is an object whose States is an object
HasStates(d) == d.k = "obj" /\ "States" \in DOMAIN d.v /\ d.v["States"].k = "obj"

\* the names of the states of a document: none when States is absent
StateKeys(d) ==
    IF HasStates(d) THEN DOMAIN d.v["States"].v ELSE {}

StateDef(d, n) == d.v["States"].v[n]

IsName(x, d) == x.k = "str" /\ x.v \in StateKeys(d)

ValidTag(x) == x.k = "str" /\ x.v \in VALID_STATE_TYPES

\* the transitions an array field (Choices, Catch) carries: <<rule, i, target>>
ArrayTransitions(rule, sd, field) ==
    IF field \in DOMAIN sd.v /\ sd.v[field].k = "arr"
    THEN {<<rule, i - 1, sd.v[field].v[i].v["Next"]>> :
             i \in {j \in 1..Len(sd.v[field].v) :
                       /\ sd.v[field].v[j].k = "obj"
                       /\ "Next" \in DOMAIN sd.v[field].v[j].v}}
    ELSE {}

FieldTransitions(rule, sd, field) ==
    IF field \in DOMAIN sd.v THEN {<<rule, 0, sd.v[field]>>} ELSE {}

\* the transitions a state carries: its Next, each Catch[i].Next and, for a
\* Choice state, each Choices[i].Next and its Default
Transitions(sd) ==
    IF sd.k # "obj" THEN {}
    ELSE FieldTransitions("NextRef", sd, "Next")
         \cup ArrayTransitions("CatchRef", sd, "Catch")
         \cup (IF "Type" \in DOMAIN sd.v /\ sd.v["Type"] = Str("Choice")
               THEN ArrayTransitions("ChoiceRef", sd, "Choices")
                    \cup FieldTransitions("DefaultRef", sd, "Default")
               ELSE {})

ReferenceRules == {"NextRef", "ChoiceRef", "DefaultRef", "CatchRef"}

StructuralRules ==
    {"StateNotObject", "MissingType", "InvalidType", "NoEndOrNext",
     "ChoicesMissing", "ChoicesNotArray", "ChoicesEmpty", "ChoiceNoNext",
     "TaskNoResource", "WaitNoField", "MapNoProcessor", "BranchesMissing",
     "BranchesNotNonEmptyArray"}

\* the states a state's transitions lead to
Successors(d, n) ==
    {t[3].v : t \in {u \in Transitions(StateDef(d, n)) : IsName(u[3], d)}}

RECURSIVE Closure(_, _)
Closure(d, S) ==
    LET more == S \cup UNION {Successors(d, n) : n \in S}
    IN  IF more = S THEN S ELSE Closure(d, more)

\* the least set that holds StartAt, if it is a state, and is closed under
\* the transitions to states
ReachableFromStart(d) ==
    IF HasStates(d) /\ "StartAt" \in DOMAIN d.v /\ IsName(d.v["StartAt"], d)
    THEN Closure(d, {d.v["StartAt"].v})
    ELSE {}

\* a state that ends the workflow: Type Succeed or Fail, or End: true
EndsWorkflow(sd) ==
    /\ sd.k = "obj"
    /\ \/ "Type" \in DOMAIN sd.v /\ sd.v["Type"] \in {Str("Succeed"), Str("Fail")}
       \/ "End" \in DOMAIN sd.v /\ sd.v["End"] = Bool(TRUE)

\* the positions of validate() in order, and "the check `c` is behind us":
\* the pass is beyond it, or an exception left it or a later check
Positions ==
    <<"load", "required_fields", "start_at", "states", "state_references",
      "terminal_states", "unreachable_states", "cross_account",
      "hardcoded_arns", "done">>

Rank(p) == CHOOSE i \in DOMAIN Positions : Positions[i] = IF p = "bfs" THEN "unreachable_states" ELSE p

Ran(c) ==
    /\ Parses(content)
    /\ pc \notin {"main", "next_file", "exited"}
    /\ IF pc = "raised" THEN Rank(raised_in) >= Rank(c) ELSE Rank(pc) > Rank(c)

\* an exception left the check `c`
RaisedIn(c) == pc = "raised" /\ raised_in = c

----------------------------------------------------------------------------
(* C1: for every file whose content parses as JSON, whatever its shape,    *)
(* validate() runs every check to completion and returns a verdict: no     *)
(* check raises.                                                           *)
C1_NoCheckRaises == Parses(content) => pc # "raised"

(* C2: when load() fails, validate() returns False, errors holds exactly   *)
(* the one load error, warnings and info are empty, and no later check is  *)
(* run for that file.                                                      *)
C2_LoadFailure ==
    ~Parses(content) =>
        /\ pc \in {"load", "done"}
        /\ definition = EmptyObj
        /\ pc = "load" => errors = <<>> /\ result = "none"
        /\ pc = "done" =>
              /\ result = "False"
              /\ Len(errors) = 1
              /\ errors[1].rule =
                    (CASE content.kind = "invalid_json" -> "InvalidJSON"
                       [] content.kind = "not_found" -> "FileNotFound"
                       [] content.kind = "read_error" -> "ReadError")
        /\ warnings = <<>>
        /\ info = <<>>

C2_Witness == ~Parses(content) /\ pc = "done" /\ result = "False"

(* C3: validate() returns True exactly when errors is empty after the     *)
(* checks have run, and the batch driver counts a file as passed exactly   *)
(* when validate() returned True and, under --strict, the file has no      *)
(* warning.                                                                *)
C3_Verdict ==
    /\ pc = "done" => (result = "True" <=> errors = <<>>)
    /\ (pc = "next_file" /\ file_idx >= 1) =>
          /\ result = "True" <=> errors = <<>>
          /\ (\A i \in DOMAIN failed_files : failed_files[i] # file_idx)
                <=> (result = "True" /\ (strict => warnings = <<>>))

C3_Witness ==
    /\ pc = "next_file"
    /\ file_idx >= 1
    /\ strict
    /\ result = "True"
    /\ warnings # <<>>
    /\ \E i \in DOMAIN failed_files : failed_files[i] = file_idx

\* the file under validation has an error, or a warning under --strict
CurrentFileFailed == errors # <<>> \/ (strict /\ warnings # <<>>)

(* C4: the driver's process exits with status 1 exactly when at least one  *)
(* file failed (has an error, or has a warning under --strict), and with   *)
(* status 0 otherwise, the run with no file included; --quiet and          *)
(* --verbose have no part in it.                                           *)
C4_ExitStatus ==
    pc = "exited" =>
        /\ exit_status \in {"0", "1"}
        /\ exit_status = "1" <=> (failed_files # <<>> \/ CurrentFileFailed)

\* C4 on the runs in which every validate() returned
C4_ExitStatus_Returned ==
    (pc = "exited" /\ raised_in = "") =>
        /\ exit_status \in {"0", "1"}
        /\ exit_status = "1" <=> failed_files # <<>>
        /\ asl_files = 0 => exit_status = "0"

LacksField(d, field) == d.k = "obj" /\ field \notin DOMAIN d.v

MissingRule(field) == IF field = "StartAt" THEN "MissingStartAt" ELSE "MissingStates"

(* C5: for a parsed definition that lacks the StartAt key or the States    *)
(* key, validate() returns False with an error naming the missing field;   *)
(* when both are missing both errors are recorded.                         *)
C5_MissingField ==
    (Parses(content) /\ pc \in {"done", "raised"}) =>
        \A field \in {"StartAt", "States"} :
            LacksField(definition, field) =>
                /\ result = "False"
                /\ Count(errors, LAMBDA e : e.rule = MissingRule(field)) = 1

\* C5 on the passes that returned
C5_MissingField_Returned ==
    (Parses(content) /\ pc = "done") =>
        \A field \in {"StartAt", "States"} :
            LacksField(definition, field) =>
                /\ result = "False"
                /\ Count(errors, LAMBDA e : e.rule = MissingRule(field)) = 1

\* a transition target that is a string
IsString(x) == x.k = "str"

\* a state as the data model has it: an object with a known Type whose Next,
\* Default, Choices, Catch and Branches have the shapes of the model and
\* whose transitions all name states
WellFormedState(d, sd) ==
    /\ sd.k = "obj"
    /\ "Type" \in DOMAIN sd.v /\ ValidTag(sd.v["Type"])
    /\ \A f \in {"Next", "Default"} : f \in DOMAIN sd.v => IsString(sd.v[f])
    /\ \A f \in {"Choices", "Catch", "Branches"} : f \in DOMAIN sd.v =>
          /\ sd.v[f].k = "arr"
          /\ \A i \in 1..Len(sd.v[f].v) :
                /\ sd.v[f].v[i].k = "obj"
                /\ "Next" \in DOMAIN sd.v[f].v[i].v => IsString(sd.v[f].v[i].v["Next"])
    /\ "Credentials" \in DOMAIN sd.v => sd.v["Credentials"].k = "obj"
    /\ \A t \in Transitions(sd) : IsName(t[3], d)

\* StartAt is a string that names no state of a non-empty States whose
\* states are well-formed
DanglingStart(d) ==
    /\ HasStates(d)
    /\ StateKeys(d) # {}
    /\ "StartAt" \in DOMAIN d.v
    /\ IsString(d.v["StartAt"])
    /\ d.v["StartAt"].v \notin StateKeys(d)
    /\ \A n \in StateKeys(d) : WellFormedState(d, StateDef(d, n))

IsReferenceError(e) == e.rule \in ReferenceRules \cup {"StartAtRef"}

IsUnreachableWarning(w) == w.rule = "Unreachable"

(* C6: when StartAt names no key of a non-empty, otherwise well-formed     *)
(* States, the pass records exactly one reference error, the one for       *)
(* StartAt, and the reachability stage ends without raising: it visits     *)
(* nothing and enqueues nothing beyond StartAt.                            *)
C6_DanglingStart ==
    (Parses(content) /\ DanglingStart(content.json)) =>
        /\ pc # "raised"
        /\ Count(errors, IsReferenceError) = IF Ran("start_at") THEN 1 ELSE 0
        /\ Ran("start_at") =>
              \E i \in DOMAIN errors :
                  /\ errors[i].rule = "StartAtRef"
                  /\ errors[i].arg = content.json.v["StartAt"]
        /\ reachable = {}
        /\ pc = "bfs" => queue \in {<<>>, <<content.json.v["StartAt"]>>}
        /\ Ran("unreachable_states") =>
              /\ queue = <<>>
              /\ \A n \in StateKeys(definition) :
                    Count(warnings, LAMBDA w : w.rule = "Unreachable" /\ w.state = n)
                        = IF content.json.v["StartAt"].v = "" THEN 0 ELSE 1

C6_Witness ==
    /\ Parses(content) /\ DanglingStart(content.json)
    /\ pc = "done"
    /\ Count(errors, IsReferenceError) = 1
    /\ Count(warnings, IsUnreachableWarning) = Cardinality(StateKeys(definition))
    /\ Cardinality(StateKeys(definition)) = 2

\* the state `n` has a Type and it is not one of the 8 valid tags
HasInvalidType(d, n) ==
    /\ StateDef(d, n).k = "obj"
    /\ "Type" \in DOMAIN StateDef(d, n).v
    /\ ~ValidTag(StateDef(d, n).v["Type"])

IsStructuralError(e) == e.rule \in StructuralRules

(* C7: for every state whose Type is not one of the 8 valid tags, whatever *)
(* JSON value it holds, the structural check records exactly one error     *)
(* naming that state (so neither the Next-or-End rule nor a type rule      *)
(* speaks of it), goes on with the other states, and raises nothing.       *)
C7_InvalidType ==
    (Ran("states") /\ HasStates(definition)) =>
        \A n \in StateKeys(definition) :
            HasInvalidType(definition, n) =>
                /\ ~RaisedIn("states")
                /\ Count(errors, LAMBDA e : IsStructuralError(e) /\ e.state = n) = 1
                /\ Count(warnings, LAMBDA w : w.state = n /\ w.rule # "Unreachable") = 0

\* C7 on the passes whose structural check returned
C7_InvalidType_Returned ==
    (Ran("states") /\ HasStates(definition) /\ ~RaisedIn("states")) =>
        \A n \in StateKeys(definition) :
            HasInvalidType(definition, n) =>
                /\ Count(errors, LAMBDA e : IsStructuralError(e) /\ e.state = n) = 1
                /\ \E i \in DOMAIN errors :
                      /\ errors[i].state = n
                      /\ errors[i].rule \in {"InvalidType", "MissingType"}
                /\ Count(warnings, LAMBDA w : w.state = n /\ w.rule # "Unreachable") = 0

\* every transition of every state: <<state, rule, i, target>>
AllTransitions(d) ==
    UNION {{<<n, t[1], t[2], t[3]>> : t \in Transitions(StateDef(d, n))} :
              n \in StateKeys(d)}

\* the reference errors recorded for one transition
ErrorsFor(t) ==
    Count(errors, LAMBDA e : /\ e.rule = t[2]
                             /\ e.state = t[1]
                             /\ e.idx = t[3]
                             /\ e.arg = t[4])

IsTransitionError(e) == e.rule \in ReferenceRules

ReferencesAsClaimed(d) ==
    /\ \A t \in AllTransitions(d) :
          ErrorsFor(t) = IF IsName(t[4], d) THEN 0 ELSE 1
    /\ Count(errors, IsTransitionError)
          = Cardinality({t \in AllTransitions(d) : ~IsName(t[4], d)})

(* C8: for every state and every transition it carries (Next, each         *)
(* Choices[i].Next, Default, each Catch[i].Next) the reference check       *)
(* records one error naming the state and the target exactly when the      *)
(* target is not a key of States, and no reference error besides.          *)
C8_References ==
    (Ran("state_references") /\ HasStates(definition)) =>
        /\ ~RaisedIn("state_references")
        /\ ReferencesAsClaimed(definition)

\* C8 on the passes whose reference check returned
C8_References_Returned ==
    (Ran("state_references") /\ HasStates(definition)
        /\ ~RaisedIn("state_references")) =>
        ReferencesAsClaimed(definition)

\* the reachability stage does not return at its guard
StageRuns(d) ==
    /\ HasStates(d)
    /\ StateKeys(d) # {}
    /\ "StartAt" \in DOMAIN d.v
    /\ Truthy(d.v["StartAt"])

ReachabilityAsClaimed(d) ==
    /\ reachable = ReachableFromStart(d)
    /\ \A n \in StateKeys(d) :
          Count(warnings, LAMBDA w : w.rule = "Unreachable" /\ w.state = n)
              = IF n \in ReachableFromStart(d) THEN 0 ELSE 1

(* C9: when the reachability stage runs, the visited set at the end of the *)
(* traversal is the least set that holds StartAt (if it is a key of        *)
(* States) and is closed under the transitions to keys of States, and the  *)
(* stage records one `unreachable` warning for each key outside that set   *)
(* and none for a key inside it.                                           *)
C9_Reachability ==
    (Ran("unreachable_states") /\ StageRuns(definition)) =>
        /\ ~RaisedIn("unreachable_states")
        /\ ReachabilityAsClaimed(definition)

\* C9 on the passes whose reachability stage returned
C9_Reachability_Returned ==
    (Ran("unreachable_states") /\ StageRuns(definition)
        /\ ~RaisedIn("unreachable_states")) =>
        ReachabilityAsClaimed(definition)

IsTerminalError(e) == e.rule = "NoTerminalState"

SomeStateEnds(d) == \E n \in StateKeys(d) : EndsWorkflow(StateDef(d, n))

(* C10: the terminal-state check records its error exactly when no state   *)
(* of States, reachable or not, has Type Succeed or Fail or a true End,    *)
(* and records it at most once in a pass.                                  *)
C10_Terminal ==
    Ran("terminal_states") =>
        /\ ~RaisedIn("terminal_states")
        /\ Count(errors, IsTerminalError) = IF SomeStateEnds(definition) THEN 0 ELSE 1

\* every End of the document is a boolean, as the data model has it
BooleanEnds(d) ==
    \A n \in StateKeys(d) :
        (StateDef(d, n).k = "obj" /\ "End" \in DOMAIN StateDef(d, n).v)
            => StateDef(d, n).v["End"].k = "bool"

\* C10 on the passes whose terminal-state check returned, for boolean Ends
C10_Terminal_Returned ==
    (Ran("terminal_states") /\ ~RaisedIn("terminal_states")
        /\ BooleanEnds(definition)) =>
        Count(errors, IsTerminalError) = IF SomeStateEnds(definition) THEN 0 ELSE 1

----------------------------------------------------------------------------
(* Warning-class findings, stated from the data model *)

WarningRules ==
    {"NoDefault", "TaskNoErrorHandling", "Unreachable", "NoRoleArn",
     "HardcodedAccounts"}

HasType(sd, ty) == sd.k = "obj" /\ "Type" \in DOMAIN sd.v /\ sd.v["Type"] = Str(ty)

Has(sd, field) == sd.k = "obj" /\ field \in DOMAIN sd.v

\* a Choice state with a Choices array and no Default
NoDefaultBranch(sd) ==
    HasType(sd, "Choice") /\ Has(sd, "Choices") /\ sd.v["Choices"].k = "arr"
        /\ ~Has(sd, "Default")

\* a Task state with neither Catch nor Retry
NoErrorHandling(sd) == HasType(sd, "Task") /\ ~Has(sd, "Catch") /\ ~Has(sd, "Retry")

\* a role reference under the literal or the path-selector key
HasRole(creds) ==
    creds.k = "obj" /\ ("RoleArn" \in DOMAIN creds.v \/ "RoleArn.$" \in DOMAIN creds.v)

\* a state with Credentials that hold no role reference
LacksRole(sd) == Has(sd, "Credentials") /\ ~HasRole(sd.v["Credentials"])

WarningsFor(rule, n) == Count(warnings, LAMBDA w : w.rule = rule /\ w.state = n)

\* the pass is over: validate() returned, or an exception left it
PassOver == Parses(content) /\ pc \in {"done", "raised"}

FindingsAreWarnings(d) ==
    /\ \A n \in StateKeys(d) :
          /\ NoDefaultBranch(StateDef(d, n)) => WarningsFor("NoDefault", n) = 1
          /\ NoErrorHandling(StateDef(d, n)) => WarningsFor("TaskNoErrorHandling", n) = 1
          /\ LacksRole(StateDef(d, n)) => WarningsFor("NoRoleArn", n) = 1
          /\ (StageRuns(d) /\ n \notin ReachableFromStart(d))
                => WarningsFor("Unreachable", n) = 1
    /\ unique_accounts(d) # {} => WarningsFor("HardcodedAccounts", "") = 1

OnlyWarningsListed ==
    /\ \A i \in DOMAIN errors : errors[i].rule \notin WarningRules
    /\ \A i \in DOMAIN warnings : warnings[i].rule \in WarningRules
    /\ \A i \in DOMAIN info : info[i].rule \notin WarningRules

(* C11: each warning-class finding (Choice without Default, Task without   *)
(* Catch and Retry, unreachable state, Credentials without a role          *)
(* reference, hardcoded account identifier) is appended to warnings and    *)
(* never to errors, so a definition with no other finding is valid by      *)
(* default: validate() returns True on it.                                 *)
C11_WarningsOnly ==
    /\ OnlyWarningsListed
    /\ (PassOver /\ HasStates(definition)) => FindingsAreWarnings(definition)
    /\ (PassOver /\ errors = <<>>) => result = "True"

\* every Credentials of the document is a mapping, as the data model has it
MappingCredentials(d) ==
    \A n \in StateKeys(d) :
        Has(StateDef(d, n), "Credentials") => StateDef(d, n).v["Credentials"].k = "obj"

\* C11 on the passes that returned, for Credentials that are mappings
C11_WarningsOnly_Returned ==
    /\ OnlyWarningsListed
    /\ (Parses(content) /\ pc = "done" /\ HasStates(definition)
          /\ MappingCredentials(definition)) => FindingsAreWarnings(definition)
    /\ (Parses(content) /\ pc = "done" /\ errors = <<>>) => result = "True"

----------------------------------------------------------------------------
(* The per-type rules, stated from the data model *)

ChoiceRules == {"ChoicesMissing", "ChoicesNotArray", "ChoicesEmpty", "ChoiceNoNext"}

ErrorsOf(rule, n) == Count(errors, LAMBDA e : e.rule = rule /\ e.state = n)

ChoiceErrors(n) == Count(errors, LAMBDA e : e.rule \in ChoiceRules /\ e.state = n)

\* an element of Choices that carries no Next
LacksNext(choice) == ~(choice.k = "obj" /\ "Next" \in DOMAIN choice.v)

B2N(b) == IF b THEN 1 ELSE 0

\* what the Choice rule is to record for the Choice state `n`
ChoiceRuleAsClaimed(n, sd) ==
    IF ~Has(sd, "Choices")
    THEN /\ ChoiceErrors(n) = 1
         /\ ErrorsOf("ChoicesMissing", n) = 1
         /\ WarningsFor("NoDefault", n) = 0
    ELSE IF sd.v["Choices"].k # "arr"
    THEN /\ ChoiceErrors(n) = 1
         /\ ErrorsOf("ChoicesNotArray", n) = 1
         /\ WarningsFor("NoDefault", n) = 0
    ELSE LET choices == sd.v["Choices"].v
         IN  /\ ErrorsOf("ChoicesMissing", n) = 0
             /\ ErrorsOf("ChoicesNotArray", n) = 0
             /\ ErrorsOf("ChoicesEmpty", n) = B2N(choices = <<>>)
             /\ \A i \in 1..Len(choices) :
                   Count(errors, LAMBDA e : /\ e.rule = "ChoiceNoNext"
                                            /\ e.state = n
                                            /\ e.idx = i - 1)
                       = B2N(LacksNext(choices[i]))
             /\ ErrorsOf("ChoiceNoNext", n)
                   = Cardinality({i \in 1..Len(choices) : LacksNext(choices[i])})
             /\ WarningsFor("NoDefault", n) = B2N(~Has(sd, "Default"))

(* C12: for a Choice state, when Choices is missing or is not an array the *)
(* Choice rule records exactly one error and nothing else; when Choices is *)
(* an array it records one error if the array is empty, one error for each *)
(* element that lacks Next, and the Default warning if Default is absent.  *)
C12_ChoiceRule ==
    (Ran("states") /\ HasStates(definition)) =>
        \A n \in StateKeys(definition) :
            HasType(StateDef(definition, n), "Choice") =>
                /\ ~RaisedIn("states")
                /\ ChoiceRuleAsClaimed(n, StateDef(definition, n))

\* the elements of every Choices array are mappings, as the data model has them
MappingChoices(d) ==
    \A n \in StateKeys(d) :
        (Has(StateDef(d, n), "Choices") /\ StateDef(d, n).v["Choices"].k = "arr")
            => \A i \in 1..Len(StateDef(d, n).v["Choices"].v) :
                  StateDef(d, n).v["Choices"].v[i].k = "obj"

\* C12 on the passes whose structural check returned, for Choices of mappings
C12_ChoiceRule_Returned ==
    (Ran("states") /\ HasStates(definition) /\ ~RaisedIn("states")
        /\ MappingChoices(definition)) =>
        \A n \in StateKeys(definition) :
            HasType(StateDef(definition, n), "Choice") =>
                ChoiceRuleAsClaimed(n, StateDef(definition, n))

\* a state that satisfies the transition rule: a true End, or a Next key
HasTransition(sd) ==
    \/ Has(sd, "End") /\ sd.v["End"] = Bool(TRUE)
    \/ Has(sd, "Next")

HasValidType(sd) == Has(sd, "Type") /\ ValidTag(sd.v["Type"])

TransitionRuleAsClaimed(n, sd) ==
    ErrorsOf("NoEndOrNext", n)
        = B2N(sd.v["Type"].v \notin {"Choice", "Succeed", "Fail"} /\ ~HasTransition(sd))

(* C13: for every state of a valid type, the structural check records the  *)
(* `must have End: true or Next` error exactly when the type is not        *)
(* Choice, Succeed or Fail and the state has neither a true End nor a Next *)
(* key; Choice, Succeed and Fail states never get it.                      *)
C13_TransitionRule ==
    (Ran("states") /\ HasStates(definition)) =>
        \A n \in StateKeys(definition) :
            HasValidType(StateDef(definition, n)) =>
                /\ ~RaisedIn("states")
                /\ TransitionRuleAsClaimed(n, StateDef(definition, n))

\* C13 on the passes whose structural check returned, for boolean Ends
C13_TransitionRule_Returned ==
    (Ran("states") /\ HasStates(definition) /\ ~RaisedIn("states")
        /\ BooleanEnds(definition)) =>
        \A n \in StateKeys(definition) :
            HasValidType(StateDef(definition, n)) =>
                TransitionRuleAsClaimed(n, StateDef(definition, n))

TimingFields == {"Seconds", "SecondsPath", "Timestamp", "TimestampPath"}

\* how many of the four timing fields a state has
TimingCount(sd) == Cardinality({f \in TimingFields : Has(sd, f)})

(* C14: a Wait state passes the Wait rule without error only when exactly  *)
(* one of Seconds, SecondsPath, Timestamp, TimestampPath is present: with  *)
(* none of them, and with two or more of them, it gets a Wait error.       *)
C14_WaitRule ==
    (Ran("states") /\ HasStates(definition) /\ ~RaisedIn("states")) =>
        \A n \in StateKeys(definition) :
            HasType(StateDef(definition, n), "Wait") =>
                ErrorsOf("WaitNoField", n) = B2N(TimingCount(StateDef(definition, n)) # 1)

\* the Wait rule of the code: an error exactly when no timing field is present
C14_WaitRule_AsCoded ==
    (Ran("states") /\ HasStates(definition) /\ ~RaisedIn("states")) =>
        \A n \in StateKeys(definition) :
            HasType(StateDef(definition, n), "Wait") =>
                ErrorsOf("WaitNoField", n) = B2N(TimingCount(StateDef(definition, n)) = 0)

----------------------------------------------------------------------------
(* Account identifiers in ARN-shaped text, stated position by position *)

AllClass(s, from, to) == \A k \in from..to : IsClass(Ch(s, k))

\* the text from i to the ":" at j2 + 13 is "arn:aws:", a non-empty run of
\* [a-z0-9-] up to the ":" at j1, a run of [a-z0-9-] up to the ":" at j2,
\* twelve digits and a ":"
ArnShape(s, i, j1, j2) ==
    /\ Ch(s, j2) = ":"
    /\ Ch(s, j2 + 13) = ":"
    /\ \A n \in 1..12 : IsDigit(Ch(s, j2 + n))
    /\ Ch(s, j1) = ":"
    /\ AllClass(s, j1 + 1, j2 - 1)
    /\ i + 8 < j1
    /\ SubSeq(s, i, i + 7) = "arn:aws:"
    /\ AllClass(s, i + 8, j1 - 1)

\* the account identifiers that occur in ARN-shaped substrings of a string
AccountsIn(s) ==
    {SubSeq(s, j2 + 1, j2 + 12) :
        j2 \in {j \in 1..Len(s) :
                   /\ Ch(s, j) = ":"
                   /\ Ch(s, j + 13) = ":"
                   /\ \E j1 \in 1..(j - 1) : \E i \in 1..(j1 - 9) :
                         ArnShape(s, i, j1, j)}}

\* the identifiers that occur anywhere in the definition
AccountsOf(d) == UNION {AccountsIn(s) : s \in StringsOf(d)}

IsAccountsWarning(w) == w.rule = "HardcodedAccounts"

\* the one warning lists the identifiers of `ids`, each once
ListsOnce(w, ids) ==
    /\ w.arg.k = "arr"
    /\ Len(w.arg.v) = Cardinality(ids)
    /\ {w.arg.v[i] : i \in 1..Len(w.arg.v)} = {Str(a) : a \in ids}

AccountsAsClaimed(d) ==
    /\ Count(warnings, IsAccountsWarning) = B2N(AccountsOf(d) # {})
    /\ \A i \in DOMAIN warnings :
          IsAccountsWarning(warnings[i]) => ListsOnce(warnings[i], AccountsOf(d))

(* C15: the hardcoded-identifier check records exactly one warning when at *)
(* least one 12-digit account identifier occurs in an ARN-shaped substring *)
(* anywhere in the definition, nested branches included, and no warning    *)
(* otherwise; the warning lists every distinct identifier exactly once.    *)
C15_HardcodedAccounts == PassOver => AccountsAsClaimed(definition)

\* C15 on the passes that reach the check
C15_HardcodedAccounts_Returned ==
    (Parses(content) /\ pc = "done") => AccountsAsClaimed(definition)

----------------------------------------------------------------------------
(* The credentials check, stated from the data model *)

\* the states that have a Credentials attribute
WithCredentials(d) == {n \in StateKeys(d) : Has(StateDef(d, n), "Credentials")}

IsCrossAccountInfo(e) == e.rule = "CrossAccount"

IsRoleWarning(w) == w.rule = "NoRoleArn"

CredentialsAsClaimed(d) ==
    /\ \A n \in StateKeys(d) :
          WarningsFor("NoRoleArn", n) = B2N(LacksRole(StateDef(d, n)))
    /\ Count(warnings, IsRoleWarning)
          = Cardinality({n \in StateKeys(d) : LacksRole(StateDef(d, n))})
    /\ Count(info, IsCrossAccountInfo) = B2N(WithCredentials(d) # {})
    /\ \A i \in DOMAIN info :
          IsCrossAccountInfo(info[i]) => info[i].idx = Cardinality(WithCredentials(d))

(* C16: the credentials check records one warning for each state whose     *)
(* Credentials contain neither RoleArn nor RoleArn.$ and none for the      *)
(* other states; it records exactly one info diagnostic when some state    *)
(* has Credentials, stating the number of states that have them, and no    *)
(* info diagnostic when no state has them.                                 *)
C16_Credentials ==
    Ran("cross_account") =>
        /\ ~RaisedIn("cross_account")
        /\ CredentialsAsClaimed(definition)

\* C16 on the passes whose credentials check returned, for Credentials that
\* are mappings
C16_Credentials_Returned ==
    (Ran("cross_account") /\ ~RaisedIn("cross_account")
        /\ MappingCredentials(definition)) =>
        CredentialsAsClaimed(definition)

----------------------------------------------------------------------------
(* The report the driver printed for the file under validation *)

LinesOf(kind) == {i \in DOMAIN printed : printed[i].kind = kind}

\* the header, then the ERRORS block: its count and one line per error, in
\* the order of the errors list
HeaderAndErrors ==
    /\ printed[1].kind = "File"
    /\ LinesOf("File") = {1}
    /\ LinesOf("ERRORS") = IF errors # <<>> THEN {2} ELSE {}
    /\ errors # <<>> =>
          /\ printed[2].n = Len(errors)
          /\ Len(printed) >= 2 + Len(errors)
          /\ \A i \in DOMAIN errors :
                printed[2 + i].kind = "error" /\ printed[2 + i].d = errors[i]
    /\ Cardinality(LinesOf("error")) = Len(errors)

\* the WARNINGS and the INFO block are there only under --verbose
VerboseBlocks ==
    /\ LinesOf("WARNINGS") # {} => verbose
    /\ LinesOf("INFO") # {} => verbose
    /\ LinesOf("warning") # {} => verbose
    /\ LinesOf("info") # {} => verbose
    /\ verbose =>
          /\ Cardinality(LinesOf("warning")) = Len(warnings)
          /\ Cardinality(LinesOf("info")) = Len(info)

(* C17: the report starts with the file path header, has an ERRORS block   *)
(* (count and one line per error, in recorded order) exactly when errors   *)
(* is non-empty, has the WARNINGS and INFO blocks only under verbose, and  *)
(* always closes with a marker: the valid marker when there is no error,   *)
(* an invalid marker when there is one.                                    *)
C17_Report ==
    printed # <<>> =>
        /\ HeaderAndErrors
        /\ VerboseBlocks
        /\ printed[Len(printed)].kind = IF errors = <<>> THEN "Valid" ELSE "Invalid"

\* the report of the code: the valid marker closes it when there is no error,
\* and nothing closes it when there is one
C17_Report_AsCoded ==
    printed # <<>> =>
        /\ HeaderAndErrors
        /\ VerboseBlocks
        /\ LinesOf("Invalid") = {}
        /\ LinesOf("Valid") = IF errors = <<>> THEN {Len(printed)} ELSE {}
        /\ errors # <<>> => printed[Len(printed)].kind \in {"error", "warning", "info"}

----------------------------------------------------------------------------
(* A file validated alone: validate() on one validator, start to end *)

Outcome(errs, warns, infos, verdict, where) ==
    [errors |-> errs, warnings |-> warns, info |-> infos, result |-> verdict,
     raised_in |-> where]

RECURSIVE AloneFrom(_, _, _)
\* the outcomes of validate() from the check `c` on, the lists being `acc`
AloneFrom(c, d, acc) ==
    UNION {LET errs == acc.errors \o r.e
               warns == acc.warnings \o r.w
               infos == acc.info \o r.i
           IN  IF r.raised THEN {Outcome(errs, warns, infos, "none", c)}
               ELSE IF c = "hardcoded_arns"
               THEN {Outcome(errs, warns, infos, Verdict(errs), "")}
               ELSE AloneFrom(CheckAfter(c), d, Outcome(errs, warns, infos, "none", "")) :
              r \in Outcomes(c, d)}

\* the outcomes validate() may have on a file; there are several only in the
\* order of the unreachable warnings and of the listed identifiers
Alone(file) ==
    IF ~LoadOk(file)
    THEN {Outcome(<<LoadError(file.kind)>>, <<>>, <<>>, "False", "")}
    ELSE AloneFrom("required_fields", file.json, Outcome(<<>>, <<>>, <<>>, "none", ""))

\* validate() on one validator ends with one of the outcomes of Alone
Alone_IsValidate ==
    pc \in {"done", "raised"} =>
        Outcome(errors, warnings, info, result, raised_in) \in Alone(content)

\* the validator w of the pool is through: validate() returned or raised
Through(w) == validators[w].pc \in {"done", "raised"}

\* what the validator w holds
Held(w) ==
    Outcome(heap[validators[w].errors], heap[validators[w].warnings],
            heap[validators[w].info], validators[w].result, validators[w].raised_in)

(* C18: when the files of a batch are validated concurrently, one          *)
(* validator per file, the checks of the validators interleaved in any     *)
(* order, each file's errors, warnings, info and verdict are those of the  *)
(* file validated alone: no validator touches what another one owns.       *)
C18_Independent ==
    \A w \in Workers :
        /\ Through(w) => Held(w) \in Alone(validators[w].content)
        /\ validators[w].pc = "load" =>
              Held(w) = Outcome(<<>>, <<>>, <<>>, "none", "")

C18_Witness ==
    /\ \A w \in Workers : Through(w)
    /\ Held(1).errors # <<>>
    /\ Held(1).result = "False"
    /\ Held(2).errors = <<>>
    /\ Held(2).warnings # <<>>
    /\ Held(2).result = "True"

----------------------------------------------------------------------------
(* The flag-file protocol *)

\* a check of a flag id has returned in the execution environment i
CheckReturned(i) ==
    /\ calls[i].pc = "returned"
    /\ calls[i].action = "check"
    /\ calls[i].flag_id # ""

\* what a check of the flag f with this timeout would report now
Report(f, timeout_seconds) ==
    LET file == efs.files[flag_path(f)]
    IN  [exists |-> efs.dir /\ file.there,
         valid |-> /\ efs.dir /\ file.there /\ file.text = "json"
                   /\ clock - file.created_at <= timeout_seconds]

\* a check that began after a write of its flag had returned 200, with no
\* delete of that flag under way since the write began, reports exists=true
ExistsAfterWrite ==
    \A i \in Calls :
        CheckReturned(i) /\ calls[i].expect = "written" =>
            /\ calls[i].response.statusCode = 200
            /\ calls[i].response.exists

\* a check that began after a delete of its flag had returned, with no write
\* of that flag under way since the delete began, reports neither
GoneAfterDelete ==
    \A i \in Calls :
        CheckReturned(i) /\ calls[i].expect = "deleted" =>
            /\ calls[i].response.statusCode = 200
            /\ ~calls[i].response.exists
            /\ ~calls[i].response.valid

\* the check that returns valid=true has just read a file that exists, parses
\* and is no older than its timeout
ValidOnlyFresh ==
    \A i \in Calls :
        /\ calls[i].pc # "returned"
        /\ CheckReturned(i)'
        /\ calls'[i].response.valid
        => LET file == efs.files[flag_path(calls[i].flag_id)]
           IN  /\ efs.dir /\ file.there
               /\ file.text = "json"
               /\ clock - file.created_at <= calls[i].timeout_seconds
               /\ calls'[i].response.exists

\* what a check of f would report changes only with the time and with a
\* step of an invocation on f
OthersLeaveAlone ==
    \A f \in FlagIds, timeout_seconds \in Timeouts :
        Report(f, timeout_seconds)' # Report(f, timeout_seconds) =>
            \/ clock' # clock
            \/ \E i \in Calls : calls'[i] # calls[i] /\ calls[i].flag_id = f

----------------------------------------------------------------------------
(* The backup-restore subdirectory finder *)

\* the directories under the mount whose name starts with the prefix asked for
Matches ==
    LET prefix == IF "expected_prefix" \in DOMAIN finder.event.v
                  THEN finder.event.v["expected_prefix"]
                  ELSE Str(BACKUP_PREFIX)
    IN  IF prefix.k # "str" THEN {}
        ELSE {n \in ItemNames :
                 /\ finder.mount.items[n] = "dir"
                 /\ Len(prefix.v) <= Len(n)
                 /\ \A i \in 1..Len(prefix.v) : Ch(n, i) = Ch(prefix.v, i)}

\* the event carries a prefix that no name can start with, not being a string
OddPrefix ==
    /\ "expected_prefix" \in DOMAIN finder.event.v
    /\ finder.event.v["expected_prefix"].k # "str"

\* C20: the finder returns 200 with a subpath exactly when exactly one
\* directory under the mount has a name starting with the prefix; with none it
\* returns a typed not-found error (the prefix being a string), with more than
\* one a typed error that is not the generic internal error, and never 200
\* with one of several matches.
C20_Finder ==
    finder.pc = "returned" =>
        LET r == finder.response
        IN  /\ (r.statusCode = 200) <=> (Cardinality(Matches) = 1)
            /\ r.statusCode = 200 => r.subpath \in Matches
            /\ (Matches = {} /\ ~OddPrefix) =>
                   r.statusCode = 404 /\ r.error = "EFS_NOT_FOUND"
            /\ Cardinality(Matches) > 1 =>
                   /\ r.statusCode # 200
                   /\ r.error \notin {"", "INTERNAL_ERROR", "EFS_NOT_FOUND"}

\* the finder of the code: several matches get the generic internal error,
\* and so does a prefix that is not a string when the mount has an entry
C20_Finder_AsCoded ==
    finder.pc = "returned" =>
        LET r == finder.response
        IN  /\ (r.statusCode = 200) <=> (Cardinality(Matches) = 1)
            /\ r.statusCode = 200 => r.subpath \in Matches
            /\ (Matches = {} /\ ~(OddPrefix /\ ListDir(finder.mount) # {})) =>
                   r.statusCode = 404 /\ r.error = "EFS_NOT_FOUND"
            /\ (Cardinality(Matches) > 1 \/ (OddPrefix /\ ListDir(finder.mount) # {})) =>
                   r.statusCode = 500 /\ r.error = "INTERNAL_ERROR"

----------------------------------------------------------------------------
(* The order of the traversal *)

RECURSIVE FifoStates(_, _, _)
\* the work-list and the visited set before each iteration of the loop of
\* the code, which takes the first name and appends in the order of the code
FifoStates(states_, q, reached) ==
    {<<q, reached>>} \cup
    (IF q = <<>> \/ StepRaises(Head(q), states_, reached) THEN {}
     ELSE IF Skipped(Head(q), states_, reached)
     THEN FifoStates(states_, Tail(q), reached)
     ELSE FifoStates(states_,
                     IF states_.v[Head(q).v].k # "obj" THEN Tail(q)
                     ELSE Tail(q) \o NextStates(states_.v[Head(q).v]).items,
                     reached \cup {Head(q).v}))

\* the traversal of the code on the document d
Fifo(d) == Traverse(StatesOf(d), <<Get(d, "StartAt", Null)>>, {})

\* the names the warnings call unreachable
Reported == {warnings[i].state : i \in {j \in DOMAIN warnings :
                                            warnings[j].rule = "Unreachable"}}

\* C21: the final visited set of the traversal, and so the set of states
\* reported unreachable, is the same whatever pending name is taken from the
\* work-list at each iteration and in whatever order the edges of a state are
\* appended: it is the one the first-in-first-out loop of the code ends with.
C21_AnyOrder ==
    /\ (pc = "cross_account" /\ StageRuns(definition)) =>
          /\ ~Fifo(definition).raised
          /\ reachable = Fifo(definition).reached
          /\ Reported = StateKeys(definition) \ Fifo(definition).reached
          /\ Len(warnings) = Cardinality(Reported)
    /\ (pc = "raised" /\ definition.k = "obj") => Fifo(definition).raised

\* a traversal that has visited every state along a path the first-in-
\* first-out loop of the code does not take
C21_Witness ==
    /\ pc = "bfs"
    /\ StageRuns(definition)
    /\ Cardinality(reachable) = MaxStates
    /\ ~Fifo(definition).raised
    /\ <<queue, reachable>> \notin
          FifoStates(StatesOf(definition), <<Get(definition, "StartAt", Null)>>, {})

----------------------------------------------------------------------------
(* The edges of the traversal and of the reference check *)

\* the targets the reference check examines for a state, in its order: with
\* no valid state at all, each one it examines is recorded as dangling
Examined(state_def) ==
    LET r == StateReferences("", state_def, {})
    IN  [i \in DOMAIN r.e |-> r.e[i].arg]

\* the iteration of the traversal takes a name of a state not yet visited
Visits ==
    /\ pc = "bfs"
    /\ queue # <<>>
    /\ IsName(Head(queue), definition)
    /\ Head(queue).v \notin reachable
    /\ StateDef(definition, Head(queue).v).k = "obj"
    /\ queue' # queue

\* the iteration that visits a state appends to the work-list the targets the
\* reference check examines for that state
FollowsExamined ==
    Visits =>
        LET state_def == StateDef(definition, Head(queue).v)
        IN  /\ reachable' = reachable \cup {Head(queue).v}
            /\ queue' = Tail(queue) \o Examined(state_def)

\* C22: the edges the traversal follows from a state are exactly the
\* transitions the reference check examines for it (Next; for a Choice each
\* Choices[i].Next and Default; each Catch[i].Next): none is validated but not
\* followed, none followed but not validated.
C22_SameEdges == [][FollowsExamined]_vars

\* C22 on the iterations that no exception leaves
C22_SameEdges_Returned == [][pc' = "bfs" => FollowsExamined]_vars

\* the traversal has visited a state that carries two transitions or more
C22_Witness ==
    /\ pc = "bfs"
    /\ \E n \in reachable :
          /\ Cardinality(Transitions(StateDef(definition, n))) >= 2
          /\ "Catch" \in DOMAIN StateDef(definition, n).v

----------------------------------------------------------------------------
(* The skipped reachability stage *)

\* the errors about StartAt or States
IsRootError(e) ==
    e.rule \in {"MissingStartAt", "MissingStates", "StatesNotObject",
                "StatesEmpty", "StartAtRef"}

\* the pass came to the reachability stage and the stage returned at its
\* guard: States or StartAt is absent, empty or otherwise false
StageSkipped ==
    /\ Ran("unreachable_states")
    /\ ~RaisedIn("unreachable_states")
    /\ definition.k = "obj"
    /\ ~StageRuns(definition)

\* C23: whenever the reachability stage is skipped it records no warning and
\* the errors already hold at least one error about StartAt or States: no
\* definition with zero errors has its reachability stage skipped.
C23_SkipCovered ==
    StageSkipped =>
        /\ Count(warnings, IsUnreachableWarning) = 0
        /\ Count(errors, IsRootError) >= 1

\* the skipped stage of the code: no warning; an error about StartAt or States
\* unless StartAt is the empty string and names a state
C23_SkipCovered_AsCoded ==
    StageSkipped =>
        /\ Count(warnings, IsUnreachableWarning) = 0
        /\ (Count(errors, IsRootError) = 0) <=>
              /\ "StartAt" \in DOMAIN definition.v
              /\ definition.v["StartAt"] = Str("")
              /\ "" \in StateKeys(definition)

----------------------------------------------------------------------------
(* Nested sub-definitions *)

\* a state with the contents of its nested sub-definitions taken out: each
\* branch of Branches and the ItemProcessor and Iterator, where they are
\* objects, become the empty object
BlankState(sd) ==
    IF sd.k # "obj" THEN sd
    ELSE Obj([f \in DOMAIN sd.v |->
                 IF f = "Branches" /\ sd.v[f].k = "arr"
                 THEN Arr([i \in DOMAIN sd.v[f].v |->
                              IF sd.v[f].v[i].k = "obj" THEN EmptyObj
                              ELSE sd.v[f].v[i]])
                 ELSE IF f \in {"ItemProcessor", "Iterator"} /\ sd.v[f].k = "obj"
                 THEN EmptyObj
                 ELSE sd.v[f]])

\* two documents differ only in the contents of their nested sub-definitions
\* exactly when they have the same blanked document
Blanked(d) ==
    IF HasStates(d)
    THEN Obj([d.v EXCEPT !["States"] =
                 Obj([n \in DOMAIN d.v["States"].v |->
                         BlankState(d.v["States"].v[n])])])
    ELSE d

\* some state of the document has a nested sub-definition with states in it
HasNested(d) == HasStates(d) /\ Blanked(d) # d

\* C24: the reference check, the reachability stage and the terminal-state
\* check give a definition the diagnostics they give the definition with the
\* contents of every nested sub-definition of Branches, ItemProcessor and
\* Iterator taken out, so two definitions that differ only there get the same
\* ones: nested states are not checked for dangling targets, not counted as
\* reachable or unreachable, not counted as terminal.
C24_NestedIgnored ==
    LET b == Blanked(definition)
    IN  /\ Ran("state_references") =>
              /\ RaisedIn("state_references") = _validate_state_references(b).raised
              /\ ~RaisedIn("state_references") =>
                    SelectSeq(errors, IsTransitionError)
                        = _validate_state_references(b).e
        /\ Ran("terminal_states") =>
              /\ RaisedIn("terminal_states") = _validate_terminal_states(b).raised
              /\ ~RaisedIn("terminal_states") =>
                    SelectSeq(errors, IsTerminalError) = _validate_terminal_states(b).e
        /\ Ran("unreachable_states") =>
              /\ reachable \subseteq StateKeys(definition)
              /\ \E r \in _detect_unreachable_states(b) :
                    /\ r.raised = RaisedIn("unreachable_states")
                    /\ ~r.raised => r.w = SelectSeq(warnings, IsUnreachableWarning)

\* a pass over a Parallel state whose branch has a state B that dangles,
\* beside a top-level state B that the traversal never reaches
C24_Witness ==
    /\ pc = "done"
    /\ HasNested(definition)
    /\ \E n \in StateKeys(definition) :
          /\ StateDef(definition, n).k = "obj"
          /\ "Branches" \in DOMAIN StateDef(definition, n).v
          /\ StateDef(definition, n).v["Branches"] = Arr(<<NestedNamesake>>)
    /\ Count(warnings, IsUnreachableWarning) = 1
    /\ Count(errors, IsTransitionError) = 0

----------------------------------------------------------------------------
(* The end of the traversal *)

\* the number of edges of a document: the transitions of all its states
EdgeCount(d) == Cardinality(AllTransitions(d))

\* no more names have been put on the work-list than one plus the edges
EnqueuedBound == enqueued <= 1 + EdgeCount(definition)

\* an iteration that appends to the work-list adds a state to the visited
\* set that was not in it, and the visited set never loses a state
AppendsOnce ==
    pc = "bfs" =>
        /\ reachable \subseteq reachable'
        /\ enqueued' > enqueued =>
              /\ reachable' # reachable
              /\ Len(queue') - Len(Tail(queue))
                    = Cardinality(Transitions(
                          StateDef(definition, CHOOSE n \in reachable' \ reachable : TRUE)))

\* C25: the traversal terminates for every States mapping of the model, with
\* cycles, self-loops, duplicate edges and dangling targets: a state enters
\* the visited set and has its edges appended at most once, so the names ever
\* put on the work-list are at most one plus the number of edges.
C25_Terminates ==
    /\ []EnqueuedBound
    /\ [][AppendsOnce]_vars
    /\ (pc = "bfs") ~> (pc # "bfs")

\* the traversal has ended on a graph with a cycle through both states and
\* has put three names or more on the work-list
C25_Witness ==
    /\ pc = "done"
    /\ Cardinality(reachable) = MaxStates
    /\ \A n \in reachable : Successors(definition, n) \ {n} # {}
    /\ enqueued >= 3

----------------------------------------------------------------------------
(* The 'Valid' marker of the report and the driver's list of failed files *)

\* the report of the validator of the current file carries the marker
MarkedValid ==
    \E i \in DOMAIN report(file_idx, errors, warnings, info, verbose) :
        report(file_idx, errors, warnings, info, verbose)[i].kind = "Valid"

\* the driver has added the current file to failed_files
ListedFailed == \E i \in DOMAIN failed_files : failed_files[i] = file_idx

\* the driver has finished with the current file
Recorded == pc = "next_file" /\ file_idx >= 1

(* C26: for every file and every flag combination, --strict included, the  *)
(* report of the file carries the 'Valid' marker exactly when the driver   *)
(* has not added the file to the failed files.                             *)
C26_ValidMarker == Recorded => (MarkedValid <=> ~ListedFailed)

\* C26 as the code has it: the marker follows errors alone, the list
\* follows errors and, under --strict, warnings; the report that is printed
\* is that report
C26_ValidMarker_AsCoded ==
    Recorded =>
        /\ MarkedValid <=> errors = <<>>
        /\ ListedFailed <=> (errors # <<>> \/ (strict /\ warnings # <<>>))
        /\ ~strict => (MarkedValid <=> ~ListedFailed)
        /\ printed # <<>> =>
              printed = report(file_idx, errors, warnings, info, verbose)
        /\ printed = <<>> => (quiet /\ ~ListedFailed)

----------------------------------------------------------------------------
(* validate() called a second time on the same validator, same file *)

\* what a caller reads from the validator when validate() has returned
Snapshot == [errors |-> errors, warnings |-> warnings, info |-> info,
             result |-> result]

\* the caller keeps what it read and calls validator.validate() again; the
\* lists are made in __init__ alone, so validate() starts from what they hold
validate_again ==
    /\ pc = "done"
    /\ first = NoSnapshot
    /\ first' = Snapshot
    /\ pc' = "load"
    /\ UNCHANGED validator_vars
    /\ UNCHANGED <<strict, quiet, verbose, asl_files, file_idx, failed_files,
                   printed, exit_status>>
    /\ UNCHANGED pool_vars
    /\ UNCHANGED lambda_vars

NextAgain == validate \/ validate_again

SpecAgain == Init /\ [][NextAgain]_vars

\* validate() has returned for the second time
ReturnedAgain == pc = "done" /\ first # NoSnapshot

\* list is twice as long as before and starts with before
Doubled(list, before) ==
    /\ Len(list) = 2 * Len(before)
    /\ SubSeq(list, 1, Len(before)) = before

(* C27: once validate() has returned, a second call of validate() on the   *)
(* same validator for the same unchanged file returns the same verdict and *)
(* leaves errors, warnings and info equal to what they were after the      *)
(* first call.                                                             *)
C27_Idempotent == ReturnedAgain => Snapshot = first

\* C27 as the code has it: the verdict is the same, each list holds what it
\* held after the first call followed by as many new entries, and a call
\* that follows a call that returned does not raise
C27_Idempotent_AsCoded ==
    /\ ReturnedAgain =>
          /\ result = first.result
          /\ Doubled(errors, first.errors)
          /\ Doubled(warnings, first.warnings)
          /\ Doubled(info, first.info)
    /\ ~(pc = "raised" /\ first # NoSnapshot)

----------------------------------------------------------------------------
(* Concurrent checks and deletes of a flag *)

\* a delete that carried a flag id has returned
DeleteReturned(i) ==
    /\ calls[i].pc = "returned"
    /\ calls[i].action = "delete"
    /\ calls[i].flag_id # ""

(* C28: under every interleaving of concurrent write, check and delete     *)
(* invocations on the same flag id and base path, each check and each      *)
(* delete that carries a flag id returns statusCode 200: a file that goes  *)
(* away or is still being written between the existence test and the open  *)
(* or remove never turns the response into a 404 or a 500.                 *)
C28_Always200 ==
    \A i \in Calls :
        (CheckReturned(i) \/ DeleteReturned(i)) =>
            calls[i].response.statusCode = 200

\* C28 as the code has it: a check or delete answers 200 or, when the file
\* went away after the existence test, 404 PATH_NOT_FOUND; never 500, and a
\* file still being written is answered 200 with valid = false
C28_Always200_AsCoded ==
    \A i \in Calls :
        (CheckReturned(i) \/ DeleteReturned(i)) =>
            \/ calls[i].response.statusCode = 200
            \/ /\ calls[i].response.statusCode = 404
               /\ calls[i].response.error = "PATH_NOT_FOUND"

----------------------------------------------------------------------------
(* The SQL executor: lambda_handler and execute_sql of run_sql.py.  The    *)
(* database, the RDS, Secrets Manager and S3 clients and json.dumps answer *)
(* each call with any of the outcomes they can have; db.log keeps the      *)
(* calls made on the connection and its cursor, each with its outcome.     *)

\* the result sets one script can return
MaxStatements == 3

\* the event: the three identifiers, `sql`, `bucketname`, `key`, each there or not
SqlEvents == [ids : BOOLEAN, sql : BOOLEAN, bucketname : BOOLEAN, key : BOOLEAN]

\* ProgrammingError, DataError, IntegrityError, NotSupportedError
SqlErrors == {"ProgrammingError", "IntegrityError"}

\* what cursor.execute(sql) can do: a result set with rows, one without
\* (cursor.description is None), an SQL error, a lost connection
ExecuteOutcomes == {"rows", "norows"} \cup SqlErrors \cup {"OperationalError"}

\* what cursor.nextset() can do: the same, or no further result set
NextsetOutcomes == ExecuteOutcomes \cup {"none"}

Call(name, outcome) == [call |-> name, outcome |-> outcome]

\* the invocation at its first line
SqlStart(event) ==
    [pc |-> "extract", event |-> event, conn |-> "None", description |-> FALSE,
     results |-> 0, pending |-> "", log |-> <<>>, statusCode |-> 0, raised |-> ""]

\* an exception leaves lambda_handler
SqlRaise(d, exception) == [d EXCEPT !.pc = "raised", !.raised = exception]

\* an exception is raised inside the try block of lambda_handler
SqlFail(d, exception) == [d EXCEPT !.pc = "except", !.pending = exception]

\* a connection left open when an exception is on its way out
close_on_success(d) ==
    IF d.pending = ""
    THEN [d EXCEPT !.conn = "closed", !.log = Append(@, Call("close", "ok"))]
    ELSE d

\* `finally: conn.close()`
Close(d) == [d EXCEPT !.conn = "closed", !.log = Append(@, Call("close", "ok"))]

\* what the sql actions leave alone
sql_rest == <<validator_vars, main_vars, pc, pool_vars, efs, clock, calls, settled, finder>>

\* `cluster_id = event["cluster"]`, `event["dbname"]`, `event["secretname"]`
sql_extract ==
    /\ db.pc = "extract"
    /\ db' = IF db.event.ids THEN [db EXCEPT !.pc = "cluster_info"]
             ELSE SqlRaise(db, "KeyError")
    /\ UNCHANGED sql_rest

\* get_db_cluster_info(cluster_id, region)
sql_cluster_info ==
    /\ db.pc = "cluster_info"
    /\ \E found \in BOOLEAN :
          db' = IF found THEN [db EXCEPT !.pc = "secret"]
                ELSE SqlRaise(db, "ClientError")
    /\ UNCHANGED sql_rest

\* get_secret(secret_name, region)
sql_secret ==
    /\ db.pc = "secret"
    /\ \E found \in BOOLEAN :
          db' = IF found THEN [db EXCEPT !.pc = "get_sql"]
                ELSE SqlRaise(db, "ClientError")
    /\ UNCHANGED sql_rest

\* `if "sql" in event: ... elif "bucketname" in event and "key" in event:
\* ... else: raise ValueError`
sql_get_sql ==
    /\ db.pc = "get_sql"
    /\ IF db.event.sql
       THEN db' = [db EXCEPT !.pc = "connect"]
       ELSE IF db.event.bucketname /\ db.event.key
       THEN \E found \in BOOLEAN :
               db' = IF found THEN [db EXCEPT !.pc = "connect"]
                     ELSE SqlRaise(db, "ClientError")
       ELSE db' = SqlRaise(db, "ValueError")
    /\ UNCHANGED sql_rest

\* get_connection: a connection, None on OperationalError, any other
\* exception on its way out; then `if not conn: raise ValueError`
sql_connect ==
    /\ db.pc = "connect"
    /\ \E outcome \in {"conn", "None", "KeyError"} :
          LET called == [db EXCEPT !.log = Append(@, Call("connect", outcome))]
          IN  db' = IF outcome = "conn"
                    THEN [called EXCEPT !.conn = "open", !.pc = "execute"]
                    ELSE IF outcome = "None"
                    THEN SqlRaise(called, "ValueError")
                    ELSE SqlRaise(called, outcome)
    /\ UNCHANGED sql_rest

\* execute_sql: `with conn.cursor() as cursor: cursor.execute(sql)`
sql_execute ==
    /\ db.pc = "execute"
    /\ \E outcome \in ExecuteOutcomes :
          LET called == [db EXCEPT !.log = Append(@, Call("execute", outcome))]
          IN  db' = IF outcome \in {"rows", "norows"}
                    THEN [called EXCEPT !.pc = "results",
                                        !.description = (outcome = "rows")]
                    ELSE SqlFail(called, outcome)
    /\ UNCHANGED sql_rest

\* execute_sql: one turn of `while True:`: the result set is fetched when
\* it has a description, an entry is appended to results, then
\* `if not cursor.nextset(): break`
sql_results ==
    /\ db.pc = "results"
    /\ \E outcome \in NextsetOutcomes :
          LET fetched == IF db.description
                         THEN [db EXCEPT !.log = Append(@, Call("fetchall", "ok"))]
                         ELSE db
              called == [fetched EXCEPT !.results = @ + 1,
                                        !.log = Append(@, Call("nextset", outcome))]
          IN  /\ outcome \in {"rows", "norows"} => db.results + 1 < MaxStatements
              /\ db' = IF outcome \in {"rows", "norows"}
                       THEN [called EXCEPT !.description = (outcome = "rows")]
                       ELSE IF outcome = "none"
                       THEN [called EXCEPT !.pc = "commit"]
                       ELSE SqlFail(called, outcome)
    /\ UNCHANGED sql_rest

\* execute_sql: `conn.commit()` after the loop, inside the with block
sql_commit ==
    /\ db.pc = "commit"
    /\ \E outcome \in {"ok", "OperationalError"} :
          LET called == [db EXCEPT !.log = Append(@, Call("commit", outcome))]
          IN  db' = IF outcome = "ok" THEN [called EXCEPT !.pc = "respond"]
                    ELSE SqlFail(called, outcome)
    /\ UNCHANGED sql_rest

\* lambda_handler: the response is built: json.dumps raises TypeError on a
\* row that holds a value JSON has no form for
sql_respond ==
    /\ db.pc = "respond"
    /\ \E serializable \in BOOLEAN :
          db' = IF serializable
                THEN [db EXCEPT !.pc = "finally", !.statusCode = 200]
                ELSE SqlFail(db, "TypeError")
    /\ UNCHANGED sql_rest

\* lambda_handler: an SQL error becomes a ValueError, any other exception
\* is raised again
sql_except ==
    /\ db.pc = "except"
    /\ db' = [db EXCEPT !.pc = "finally",
                        !.pending = IF db.pending \in SqlErrors
                                    THEN "ValueError" ELSE db.pending]
    /\ UNCHANGED sql_rest

\* lambda_handler: `finally: conn.close()`, then the return or the exception
sql_finally ==
    /\ db.pc = "finally"
    /\ db' = IF db.pending = ""
             THEN [Close(db) EXCEPT !.pc = "returned"]
             ELSE SqlRaise(Close(db), db.pending)
    /\ UNCHANGED sql_rest

InitSql ==
    /\ content = File("not_found", Null)
    /\ definition = EmptyObj
    /\ errors = <<>>
    /\ warnings = <<>>
    /\ info = <<>>
    /\ reachable = {}
    /\ enqueued = 0
    /\ queue = <<>>
    /\ result = "none"
    /\ raised_in = ""
    /\ pc = "lambda"
    /\ strict = FALSE
    /\ quiet = FALSE
    /\ verbose = FALSE
    /\ asl_files = 0
    /\ file_idx = 0
    /\ failed_files = <<>>
    /\ printed = <<>>
    /\ exit_status = "running"
    /\ first = NoSnapshot
    /\ validators = <<>>
    /\ heap = <<>>
    /\ efs = <<>>
    /\ clock = 0
    /\ calls = <<>>
    /\ settled = <<>>
    /\ finder = <<>>
    /\ \E event \in SqlEvents : db = SqlStart(event)

NextSql ==
    \/ sql_extract
    \/ sql_cluster_info
    \/ sql_secret
    \/ sql_get_sql
    \/ sql_connect
    \/ sql_execute
    \/ sql_results
    \/ sql_commit
    \/ sql_respond
    \/ sql_except
    \/ sql_finally

SpecSql == InitSql /\ [][NextSql]_vars

\* the positions in the log of the calls of this name
CallsOf(name) == {i \in DOMAIN db.log : db.log[i].call = name}

\* a connection has been obtained
Connected == \E i \in CallsOf("connect") : db.log[i].outcome = "conn"

\* lambda_handler has been left, by return or by an exception
SqlLeft == db.pc \in {"returned", "raised"}

\* every call made before position i went without error
CleanBefore(i) ==
    \A j \in 1..(i - 1) : db.log[j].outcome \in {"conn", "rows", "norows", "none", "ok"}

\* every result set that has rows was fetched right after it was announced
AllFetched(i) ==
    \A j \in 1..(i - 1) :
        db.log[j].outcome = "rows" => db.log[j + 1] = Call("fetchall", "ok")

\* the connection is closed exactly once on every path out of the handler
ClosedOnce ==
    /\ Cardinality(CallsOf("close")) <= 1
    /\ CallsOf("close") # {} => Connected
    /\ (SqlLeft /\ Connected) =>
          /\ Cardinality(CallsOf("close")) = 1
          /\ db.conn = "closed"
          /\ db.log[Len(db.log)].call = "close"

\* a commit comes after the last result set was consumed, with no error
\* before it, and before the close
CommitLast ==
    \A i \in CallsOf("commit") :
        /\ i > 1
        /\ db.log[i - 1] = Call("nextset", "none")
        /\ CleanBefore(i)
        /\ AllFetched(i)
        /\ \A j \in CallsOf("close") : i < j
        /\ Cardinality(CallsOf("commit")) = 1

\* neither `sql` nor `bucketname` with `key` is in the event
NothingToRun(event) == ~event.sql /\ ~(event.bucketname /\ event.key)

\* with no connection, or nothing to run, the handler raises and no SQL runs
RaisesUnexecuted ==
    (SqlLeft /\ (~Connected \/ NothingToRun(db.event))) =>
        /\ db.pc = "raised"
        /\ db.raised # ""
        /\ CallsOf("execute") = {}
        /\ CallsOf("commit") = {}

(* C29: in the SQL executor, a connection that has been obtained is closed *)
(* exactly once on every path out of lambda_handler (success, SQL error,   *)
(* any other exception); a commit is issued only after the results of all  *)
(* statements have been consumed without error, and always before the      *)
(* close; when no connection can be obtained, or neither `sql` nor          *)
(* `bucketname`/`key` is given, the handler raises without executing SQL.   *)
C29_SqlExecutor == ClosedOnce /\ CommitLast /\ RaisesUnexecuted

C29_Witness ==
    /\ db.pc = "raised"
    /\ db.raised = "ValueError"
    /\ Connected
    /\ Cardinality(CallsOf("fetchall")) >= 1
    /\ Cardinality(CallsOf("nextset")) >= 2
    /\ CallsOf("commit") = {}
    /\ CallsOf("close") # {}
====
